---- MODULE Spec2Model ----
(***************************************************************************)
(* Model of the Neo4j knowledge-graph memory server: the graph store       *)
(* adapter (Neo4jMemory), the write gate of safe_cypher_query and the      *)
(* create_base_ontology workflow.  The backing store is modelled by what   *)
(* the Cypher statements of the source do to it.                           *)
(***************************************************************************)
EXTENDS Integers, Sequences, FiniteSets, TLC

(***************************************************************************)
(* Bounds of the model.                                                    *)
(***************************************************************************)
MaxSessions == 3
MaxEntities == 2
MaxRelations == 2
MaxRequests == 2
MaxTokenCopies == 2
MaxTestNodes == 2
MaxOntologyCopies == 2
MaxWorkflows == 2
MaxChunks == 3
MaxPieces == 3

Names == {"A", "B"}
EntityTypes == {"person", "place"}
ObsValues == {"o1", "o2"}
RelTypes == {"LIKES"}

\* JavaScript's undefined: a property a record does not carry.
Undefined == "undefined"
\* An observations property that is undefined (the entity carries no array).
UndefinedArray == <<Undefined>>

VARIABLES
    nodes,          \* :Memory nodes of the store, a set of [id, entityID, name, entityType, observations]
    rels,           \* :Memory relationships of the store, a set of [id, src, dst, relationType]
    openSessions,   \* driver sessions opened and not yet closed
    last,           \* the adapter call that completed last: [op, args, status, res]
    altNodes,       \* :Memory nodes of a second store that receives the same calls in the other order
    altRels,        \* :Memory relationships of the second store
    order,          \* the two-order experiment: [phase, E1, E2, before]
    db,             \* what the store holds besides :Memory: [tokens, aged, tests, ontologies, links]
    env,            \* process configuration: [unsafe, allowInsist]
    known,          \* token names an external caller has read in query results
    lastQ,          \* the query call that completed last
    wf,             \* the create_base_ontology request in progress
    cls,            \* a query text and what the classifier said of it: [text, chunks, done, isWrite]
    calls,          \* adapter calls in progress side by side, the clock and the timestamps of the nodes
    reply           \* a text of the collaborator and what a generation step made of it

graphVars == <<nodes, rels, openSessions, last>>
orderVars == <<altNodes, altRels, order>>
gateVars == <<db, env, known, lastQ, wf>>
textVars == <<cls>>
callVars == <<calls>>
replyVars == <<reply>>
vars == <<nodes, rels, openSessions, last, altNodes, altRels, order, db, env, known, lastQ, wf,
          cls, calls, reply>>

(***************************************************************************)
(* Helpers on sequences and sets.                                          *)
(***************************************************************************)
Range(s) == {s[i] : i \in DOMAIN s}

NoDup(s) == \A i, j \in DOMAIN s : i # j => s[i] # s[j]

RECURSIVE SetToSeqById(_)
\* The elements of S (records with an id field) in increasing id order.
SetToSeqById(S) ==
    IF S = {} THEN <<>>
    ELSE LET m == CHOOSE x \in S : \A y \in S : x.id <= y.id
         IN <<m>> \o SetToSeqById(S \ {m})

\* Array.prototype.filter with a keep predicate given as a set of kept indexes.
RECURSIVE FilterIdx(_, _, _)
FilterIdx(s, keep, i) ==
    IF i > Len(s) THEN <<>>
    ELSE (IF i \in keep THEN <<s[i]>> ELSE <<>>) \o FilterIdx(s, keep, i + 1)

(***************************************************************************)
(* The store.                                                              *)
(***************************************************************************)
NodeIds == {n.id : n \in nodes}

\* Identity of a node created by the store: the least identifier not in use.
FreshId(ns) == CHOOSE i \in 1..(Cardinality(ns) + 1) : \A n \in ns : n.id # i

\* r.properties of a stored relationship: the MERGE of saveGraph stores
\* relationType only, so from and to are not properties of the relationship.
RelProperties(r) == [from |-> Undefined, to |-> Undefined, relationType |-> r.relationType]

RECURSIVE OutgoingSeq(_)
\* collect(r) of one entity row: the properties of its outgoing relationships.
OutgoingSeq(rs) ==
    IF rs = {} THEN <<>>
    ELSE LET m == CHOOSE x \in rs : \A y \in rs : x.id <= y.id
         IN <<RelProperties(m)>> \o OutgoingSeq(rs \ {m})

RECURSIVE LoadRelations(_, _)
LoadRelations(entitySeq, rs) ==
    IF entitySeq = <<>> THEN <<>>
    ELSE OutgoingSeq({r \in rs : r.src = Head(entitySeq).id})
             \o LoadRelations(Tail(entitySeq), rs)

\* entityNode.properties
NodeProperties(n) ==
    [entityID |-> n.entityID, name |-> n.name, entityType |-> n.entityType,
     observations |-> n.observations]

\* Neo4jMemory.loadGraph: one row per :Memory node, with its outgoing relationships.
LoadGraph(ns, rs) ==
    LET rows == SetToSeqById(ns)
    IN [entities |-> [i \in DOMAIN rows |-> NodeProperties(rows[i])],
        relations |-> LoadRelations(rows, rs)]

(***************************************************************************)
(* Neo4jMemory.saveGraph                                                   *)
(***************************************************************************)
\* JSON.parse(JSON.stringify(entity)): strings and arrays of strings come back
\* as they were, a property that is undefined is dropped (it stays undefined).
DeepCopyEntity(e) ==
    [entityID |-> e.entityID, name |-> e.name, entityType |-> e.entityType,
     observations |-> IF e.observations = UndefinedArray THEN UndefinedArray
                      ELSE [i \in DOMAIN e.observations |-> e.observations[i]]]

DeepCopy(graph) ==
    [entities |-> [i \in DOMAIN graph.entities |-> DeepCopyEntity(graph.entities[i])],
     relations |-> graph.relations]

\* entityMemory += entity: every property the map carries overwrites the node's.
SetProps(n, e) ==
    [id |-> n.id,
     entityID |-> IF e.entityID # Undefined THEN e.entityID ELSE n.entityID,
     name |-> IF e.name # Undefined THEN e.name ELSE n.name,
     entityType |-> IF e.entityType # Undefined THEN e.entityType ELSE n.entityType,
     observations |-> IF e.observations # UndefinedArray THEN e.observations ELSE n.observations]

\* A CREATE in place of the MERGE: a node per row, matched or not.
MergeEntity_CreateOnly(ns, e) ==
    ns \cup {SetProps([id |-> FreshId(ns), entityID |-> e.name, name |-> Undefined,
                       entityType |-> Undefined, observations |-> UndefinedArray], e)}

\* MERGE (entityMemory:Memory { entityID: entity.name }) ON CREATE SET / ON MATCH SET
MergeEntity(ns, e) ==
    LET matched == {n \in ns : n.entityID = e.name}
        created == [id |-> FreshId(ns), entityID |-> e.name, name |-> Undefined,
                    entityType |-> Undefined, observations |-> UndefinedArray]
    IN IF matched = {}
       THEN ns \cup {SetProps(created, e)}
       ELSE (ns \ matched) \cup {SetProps(n, e) : n \in matched}

RECURSIVE SaveEntities(_, _)
\* UNWIND $memoryGraph.entities as entity MERGE ...
SaveEntities(ns, es) ==
    IF es = <<>> THEN ns ELSE SaveEntities(MergeEntity(ns, Head(es)), Tail(es))

RECURSIVE AddRels(_, _, _)
\* MERGE (from)-[r:Memory {relationType}]->(to) for every matched pair of one row.
AddRels(rs, pairs, relationType) ==
    IF pairs = {} THEN rs
    ELSE LET p == CHOOSE x \in pairs : TRUE
             present == \E r \in rs : r.src = p[1] /\ r.dst = p[2] /\ r.relationType = relationType
             added == IF present THEN rs
                      ELSE rs \cup {[id |-> FreshId(rs), src |-> p[1], dst |-> p[2],
                                      relationType |-> relationType]}
         IN AddRels(added, pairs \ {p}, relationType)

\* A MERGE of the relationship with no MATCH of its endpoints: an endpoint
\* that is not in the store is left dangling (identity 0).
MergeRelation_NoMatch(ns, rs, r) ==
    LET ends(name) == IF \E n \in ns : n.entityID = name
                      THEN {n.id : n \in {m \in ns : m.entityID = name}} ELSE {0}
    IN AddRels(rs, {<<f, t>> : f \in ends(r.from), t \in ends(r.to)}, r.relationType)

\* MATCH (from:Memory),(to:Memory) WHERE from.entityID = relation.from AND
\* to.entityID = relation.to: a comparison with an absent value matches nothing.
MergeRelation(ns, rs, r) ==
    LET pairs == {<<f.id, t.id>> : f \in {n \in ns : r.from # Undefined /\ n.entityID = r.from},
                                   t \in {n \in ns : r.to # Undefined /\ n.entityID = r.to}}
    IN AddRels(rs, pairs, r.relationType)

RECURSIVE SaveRelations(_, _, _)
\* UNWIND $memoryGraph.relations as relation MATCH ... MERGE ...
SaveRelations(ns, rs, relations) ==
    IF relations = <<>> THEN rs
    ELSE SaveRelations(ns, MergeRelation(ns, rs, Head(relations)), Tail(relations))

\* The two statements of saveGraph, run in one write transaction.
SaveGraph(ns, rs, graph) ==
    LET ns2 == SaveEntities(ns, DeepCopy(graph).entities)
    IN [nodes |-> ns2, rels |-> SaveRelations(ns2, rs, graph.relations)]

(***************************************************************************)
(* The operations of the graph store adapter, as functions of the store.   *)
(* Each yields the store after the call and the value the call returns.    *)
(***************************************************************************)
\* createEntities without the filter on existing names: every input entity is appended.
CreateEntitiesOp_NoFilter(ns, rs, entities) ==
    LET graph == LoadGraph(ns, rs)
        processedEntities ==
            [i \in DOMAIN entities |->
                [entityID |-> Undefined, name |-> entities[i].name,
                 entityType |-> entities[i].entityType,
                 observations |-> IF entities[i].observations = UndefinedArray
                                  THEN <<>> ELSE entities[i].observations]]
        saved == SaveGraph(ns, rs, [entities |-> graph.entities \o processedEntities,
                                    relations |-> graph.relations])
    IN [nodes |-> saved.nodes, rels |-> saved.rels, res |-> processedEntities]

\* createEntities that returns the new entities and saves every input entity,
\* so that an entity the graph has is overwritten.
CreateEntitiesOp_Upsert(ns, rs, entities) ==
    LET graph == LoadGraph(ns, rs)
        processedEntities ==
            [i \in DOMAIN entities |->
                [entityID |-> Undefined, name |-> entities[i].name,
                 entityType |-> entities[i].entityType,
                 observations |-> IF entities[i].observations = UndefinedArray
                                  THEN <<>> ELSE entities[i].observations]]
        keep == {i \in DOMAIN processedEntities :
                    ~ \E j \in DOMAIN graph.entities :
                          graph.entities[j].name = processedEntities[i].name}
        saved == SaveGraph(ns, rs, [entities |-> graph.entities \o processedEntities,
                                    relations |-> graph.relations])
    IN [nodes |-> saved.nodes, rels |-> saved.rels,
        res |-> FilterIdx(processedEntities, keep, 1)]

\* createEntities: load, drop the entities whose name the graph has, append, save.
CreateEntitiesOp(ns, rs, entities) ==
    LET graph == LoadGraph(ns, rs)
        processedEntities ==
            [i \in DOMAIN entities |->
                [entityID |-> Undefined, name |-> entities[i].name,
                 entityType |-> entities[i].entityType,
                 observations |-> IF entities[i].observations = UndefinedArray
                                  THEN <<>> ELSE entities[i].observations]]
        keep == {i \in DOMAIN processedEntities :
                    ~ \E j \in DOMAIN graph.entities :
                          graph.entities[j].name = processedEntities[i].name}
        newEntities == FilterIdx(processedEntities, keep, 1)
        saved == SaveGraph(ns, rs, [entities |-> graph.entities \o newEntities,
                                    relations |-> graph.relations])
    IN [nodes |-> saved.nodes, rels |-> saved.rels, res |-> newEntities]

\* createRelations: load, drop the relations the graph has by (from, to, relationType), append, save.
CreateRelationsOp(ns, rs, relations) ==
    LET graph == LoadGraph(ns, rs)
        keep == {i \in DOMAIN relations :
                    ~ \E j \in DOMAIN graph.relations :
                          /\ graph.relations[j].from = relations[i].from
                          /\ graph.relations[j].to = relations[i].to
                          /\ graph.relations[j].relationType = relations[i].relationType}
        newRelations == FilterIdx(relations, keep, 1)
        saved == SaveGraph(ns, rs, [entities |-> graph.entities,
                                    relations |-> graph.relations \o newRelations])
    IN [nodes |-> saved.nodes, rels |-> saved.rels, res |-> newRelations]

\* o.contents.filter(content => !entity.observations.includes(content))
NewObservations(contents, existing) ==
    FilterIdx(contents, {i \in DOMAIN contents : contents[i] \notin Range(existing)}, 1)

\* graph.entities.find(e => e.name === entityName): the first index, 0 when there is none.
FindEntity(entities, entityName) ==
    IF \E i \in DOMAIN entities : entities[i].name = entityName
    THEN CHOOSE i \in DOMAIN entities :
             /\ entities[i].name = entityName
             /\ \A j \in DOMAIN entities : entities[j].name = entityName => i <= j
    ELSE 0

RECURSIVE AddObservationsLoop(_, _, _)
\* observations.map(...): the entities of the loaded graph after each entry was
\* applied in turn, and the results; found is FALSE once an entity was missing.
AddObservationsLoop(entities, observations, results) ==
    IF observations = <<>> THEN [found |-> TRUE, entities |-> entities, results |-> results]
    ELSE LET o == Head(observations)
             k == FindEntity(entities, o.entityName)
         IN IF k = 0
            THEN [found |-> FALSE, entities |-> entities, results |-> results]
            ELSE LET current == IF entities[k].observations = UndefinedArray
                                THEN <<>> ELSE entities[k].observations
                     newObservations == NewObservations(o.contents, current)
                     updated == [entities EXCEPT ![k].observations = current \o newObservations]
                 IN AddObservationsLoop(updated, Tail(observations),
                        Append(results, [entityName |-> o.entityName,
                                         addedObservations |-> newObservations]))

NotFound == "NotFound"
StoreError == "StoreError"
Ok == "ok"

\* addObservations that saves what the entries before a missing entity appended.
AddObservationsOp_SavePartial(ns, rs, observations) ==
    LET graph == LoadGraph(ns, rs)
        loop == AddObservationsLoop(graph.entities, observations, <<>>)
        saved == SaveGraph(ns, rs, [entities |-> loop.entities, relations |-> graph.relations])
    IN [nodes |-> saved.nodes, rels |-> saved.rels,
        res |-> IF loop.found THEN loop.results ELSE <<>>, threw |-> ~loop.found]

\* addObservations: load, append per entry the contents the entity does not have, save.
AddObservationsOp(ns, rs, observations) ==
    LET graph == LoadGraph(ns, rs)
        loop == AddObservationsLoop(graph.entities, observations, <<>>)
        saved == SaveGraph(ns, rs, [entities |-> loop.entities, relations |-> graph.relations])
    IN IF loop.found
       THEN [nodes |-> saved.nodes, rels |-> saved.rels, res |-> loop.results, threw |-> FALSE]
       ELSE [nodes |-> ns, rels |-> rs, res |-> <<>>, threw |-> TRUE]

\* A delete that drops the outgoing relationships of a node and keeps the incoming ones.
DetachDelete_OutgoingOnly(ns, rs, entityNames) ==
    LET doomed == {n \in ns : n.name \in Range(entityNames)}
        doomedIds == {n.id : n \in doomed}
    IN [nodes |-> ns \ doomed, rels |-> {r \in rs : r.src \notin doomedIds}]

\* MATCH (entity:Memory) WHERE entity.name IN $entityNames DETACH DELETE entity
DetachDelete(ns, rs, entityNames) ==
    LET doomed == {n \in ns : n.name \in Range(entityNames)}
        doomedIds == {n.id : n \in doomed}
    IN [nodes |-> ns \ doomed,
        rels |-> {r \in rs : r.src \notin doomedIds /\ r.dst \notin doomedIds}]

\* indicesToRemove of one deletion: indexOf of every listed value that is found.
RECURSIVE IndicesToRemove(_, _)
IndicesToRemove(obs, toDelete) ==
    IF toDelete = <<>> THEN <<>>
    ELSE LET hits == {i \in DOMAIN obs : obs[i] = Head(toDelete)}
         IN (IF hits = {} THEN <<>>
             ELSE <<CHOOSE i \in hits : \A j \in hits : i <= j>>)
            \o IndicesToRemove(obs, Tail(toDelete))

\* indicesToRemove.sort((a, b) => b - a)
RECURSIVE SortDescending(_)
SortDescending(s) ==
    IF s = <<>> THEN <<>>
    ELSE LET k == CHOOSE i \in DOMAIN s : \A j \in DOMAIN s : s[i] >= s[j]
         IN <<s[k]>> \o SortDescending(SubSeq(s, 1, k - 1) \o SubSeq(s, k + 1, Len(s)))

\* entity.observations.splice(index, 1), with the 1-based index of the model;
\* an index past the end removes nothing.
Splice(obs, index) ==
    IF index > Len(obs) THEN obs
    ELSE SubSeq(obs, 1, index - 1) \o SubSeq(obs, index + 1, Len(obs))

RECURSIVE SpliceAll(_, _)
SpliceAll(obs, indices) ==
    IF indices = <<>> THEN obs
    ELSE SpliceAll(Splice(obs, Head(indices)), Tail(indices))

RECURSIVE DeleteObservationsLoop(_, _)
\* deletions.forEach(...): entities that are absent or carry no array are skipped.
DeleteObservationsLoop(entities, deletions) ==
    IF deletions = <<>> THEN entities
    ELSE LET d == Head(deletions)
             k == FindEntity(entities, d.entityName)
         IN IF k = 0 \/ entities[k].observations = UndefinedArray
            THEN DeleteObservationsLoop(entities, Tail(deletions))
            ELSE LET obs == entities[k].observations
                     indices == SortDescending(IndicesToRemove(obs, d.observations))
                 IN DeleteObservationsLoop(
                        [entities EXCEPT ![k].observations = SpliceAll(obs, indices)],
                        Tail(deletions))

\* deleteObservations: load, remove the listed values, save.
DeleteObservationsOp(ns, rs, deletions) ==
    LET graph == LoadGraph(ns, rs)
        saved == SaveGraph(ns, rs, [entities |-> DeleteObservationsLoop(graph.entities, deletions),
                                    relations |-> graph.relations])
    IN [nodes |-> saved.nodes, rels |-> saved.rels]

\* deleteRelations: load, drop the loaded relations equal to a listed one, save.
DeleteRelationsOp(ns, rs, relations) ==
    LET graph == LoadGraph(ns, rs)
        keep == {i \in DOMAIN graph.relations :
                    ~ \E j \in DOMAIN relations :
                          /\ graph.relations[i].from = relations[j].from
                          /\ graph.relations[i].to = relations[j].to
                          /\ graph.relations[i].relationType = relations[j].relationType}
        saved == SaveGraph(ns, rs, [entities |-> graph.entities,
                                    relations |-> FilterIdx(graph.relations, keep, 1)])
    IN [nodes |-> saved.nodes, rels |-> saved.rels]

(***************************************************************************)
(* Sessions.  loadGraph, deleteEntities and executeCypherQuery close their *)
(* session in a finally block; saveGraph opens one and never closes it.    *)
(***************************************************************************)
LoadGraphSessions == 0
SaveGraphSessions == 1
DeleteEntitiesSessions == 0

(***************************************************************************)
(* Inputs of the adapter calls.                                            *)
(***************************************************************************)
SeqsUpTo(S, n) == UNION {[1..k -> S] : k \in 0..n}

\* Entities a caller passes: two shapes, so that type and observations of a
\* second entity of the same name differ from those of the first.
EntityInputs ==
    {[name |-> n, entityType |-> "person", observations |-> UndefinedArray] : n \in Names}
        \cup {[name |-> n, entityType |-> "place", observations |-> <<"o1">>] : n \in Names}

RelationInputs == [from : Names, to : Names, relationType : RelTypes]

ContentsInputs == {<<"o1">>, <<"o1", "o1">>, <<"o1", "o2">>, <<"o2", "o2">>}

ObservationInputs == [entityName : Names, contents : ContentsInputs]

DeletionInputs == [entityName : Names, observations : ContentsInputs]

\* The outcome of the store for one call: it answers, or a statement fails
\* (StoreError) in loadGraph or in saveGraph.
StoreOutcomes == {"answers", "failsInLoad", "failsInSave"}

\* Token names: those a script of the repository issues by hand, those the
\* ontology workflow generates (one per request), and one that was never issued.
ScriptTokens == {"s1"}
WorkflowTokens == {"w1", "w2", "w3"}
GuessedName == "guess"
NoName == "none"
TokenNames == ScriptTokens \cup WorkflowTokens \cup {GuessedName}

Subjects == {"S", "P"}

EmptyDb ==
    [tokens |-> [t \in TokenNames |-> 0], aged |-> [t \in TokenNames |-> 0],
     tests |-> 0,
     ontologies |-> [s \in Subjects |-> 0], links |-> {}]

IdleWf == [pc |-> "idle", n |-> 0, subject |-> NoName, parent |-> NoName, force |-> FALSE,
           token |-> NoName, queue |-> <<>>, executed |-> 0, pending |-> "none",
           revoke |-> "none", outcome |-> "none", exists |-> "none",
           related |-> [failure |-> "none", confidence |-> 0], failed |-> 0]

NoCall == [op |-> "none", query |-> "none", name |-> NoName, params |-> "absent",
           kind |-> "none", cause |-> "none", rows |-> 0, executed |-> FALSE,
           changed |-> FALSE, held |-> 0, aged |-> 0, before |-> 0,
           unit |-> "none", wrapped |-> FALSE]

\* The callers whose adapter calls can overlap.
Callers == {1, 2}

\* A timestamp property: the instant, and whether the value is the store's
\* DateTime or the plain object JSON makes of it.  at = 0: the property is absent.
NoStamp == [at |-> 0, form |-> "none"]
NoStamps == [n \in Names |-> [createdAt |-> NoStamp, updatedAt |-> NoStamp]]

IdleCall == [pc |-> "idle", op |-> "none", args |-> <<>>,
             graph |-> [entities |-> <<>>, relations |-> <<>>], stamps |-> NoStamps,
             res |-> <<>>, threw |-> FALSE, saved |-> 0]

\* No call in progress, nothing stored, the clock at its start.
NoCalls == [clock |-> 0, stamps |-> NoStamps, proc |-> [p \in Callers |-> IdleCall],
            gone |-> {}]

\* No text received from the collaborator yet.
NoReply == [step |-> "none", content |-> <<>>, uses |-> "none"]

\* No text classified yet.
NoText == [text |-> <<>>, chunks |-> 0, done |-> FALSE, isWrite |-> FALSE]

\* The state after construction: an empty store, no call made.
Init ==
    /\ nodes = {}
    /\ rels = {}
    /\ openSessions = 0
    /\ last = [op |-> "none", args |-> <<>>, status |-> Ok, res |-> <<>>]
    /\ altNodes = {}
    /\ altRels = {}
    /\ order = [phase |-> "setup", E1 |-> <<>>, E2 |-> <<>>, before |-> {}]
    /\ db = EmptyDb
    /\ env = [unsafe |-> FALSE, allowInsist |-> FALSE]
    /\ known = {}
    /\ lastQ = NoCall
    /\ wf = IdleWf
    /\ cls = NoText
    /\ calls = NoCalls
    /\ reply = NoReply

\* A load-modify-save call: op names it, after is the store the save writes,
\* res the value returned; threw is a NotFound raised between load and save
\* (after is then the store the call left behind without saving).
LoadModifySave(op, args, after, res, threw, outcome) ==
    /\ openSessions + SaveGraphSessions <= MaxSessions
    /\ IF outcome = "failsInLoad"
       THEN /\ UNCHANGED <<nodes, rels>>
            /\ openSessions' = openSessions + LoadGraphSessions
            /\ last' = [op |-> op, args |-> <<>>, status |-> StoreError, res |-> <<>>]
       ELSE IF threw
       THEN /\ nodes' = after.nodes
            /\ rels' = after.rels
            /\ openSessions' = openSessions + LoadGraphSessions
            /\ last' = [op |-> op, args |-> args, status |-> NotFound, res |-> <<>>]
       ELSE IF outcome = "failsInSave"
       THEN /\ UNCHANGED <<nodes, rels>>
            /\ openSessions' = openSessions + LoadGraphSessions + SaveGraphSessions
            /\ last' = [op |-> op, args |-> <<>>, status |-> StoreError, res |-> <<>>]
       ELSE /\ nodes' = after.nodes
            /\ rels' = after.rels
            /\ openSessions' = openSessions + LoadGraphSessions + SaveGraphSessions
            /\ last' = [op |-> op, args |-> args, status |-> Ok, res |-> res]

CreateEntities ==
    \E entities \in SeqsUpTo(EntityInputs, MaxEntities), outcome \in StoreOutcomes :
        LET r == CreateEntitiesOp(nodes, rels, entities)
        IN LoadModifySave("createEntities", entities, r, r.res, FALSE, outcome)

CreateRelations ==
    \E relations \in SeqsUpTo(RelationInputs, MaxRelations), outcome \in StoreOutcomes :
        LET r == CreateRelationsOp(nodes, rels, relations)
        IN LoadModifySave("createRelations", relations, r, r.res, FALSE, outcome)

AddObservations ==
    \E observations \in SeqsUpTo(ObservationInputs, MaxRequests) \ {<<>>},
       outcome \in StoreOutcomes :
        LET r == AddObservationsOp(nodes, rels, observations)
        IN LoadModifySave("addObservations", observations, r, r.res, r.threw, outcome)

DeleteObservations ==
    \E deletions \in SeqsUpTo(DeletionInputs, 1), outcome \in StoreOutcomes :
        LET r == DeleteObservationsOp(nodes, rels, deletions)
        IN LoadModifySave("deleteObservations", deletions, r, <<>>, FALSE, outcome)

DeleteRelations ==
    \E relations \in SeqsUpTo(RelationInputs, MaxRelations), outcome \in StoreOutcomes :
        LET r == DeleteRelationsOp(nodes, rels, relations)
        IN LoadModifySave("deleteRelations", relations, r, <<>>, FALSE, outcome)

\* deleteEntities: an empty list returns at once; otherwise one write statement.
DeleteEntities ==
    \E entityNames \in SeqsUpTo(Names, MaxEntities), outcome \in {"answers", "failsInSave"} :
        IF entityNames = <<>>
        THEN /\ UNCHANGED <<nodes, rels, openSessions>>
             /\ last' = [op |-> "deleteEntities", args |-> entityNames, status |-> Ok, res |-> <<>>]
        ELSE IF outcome = "failsInSave"
        THEN /\ UNCHANGED <<nodes, rels>>
             /\ openSessions' = openSessions + DeleteEntitiesSessions
             /\ last' = [op |-> "deleteEntities", args |-> <<>>, status |-> StoreError, res |-> <<>>]
        ELSE LET r == DetachDelete(nodes, rels, entityNames)
             IN /\ nodes' = r.nodes
                /\ rels' = r.rels
                /\ openSessions' = openSessions + DeleteEntitiesSessions
                /\ last' = [op |-> "deleteEntities", args |-> entityNames, status |-> Ok, res |-> <<>>]

GraphNext ==
    /\ \/ CreateEntities
       \/ CreateRelations
       \/ AddObservations
       \/ DeleteObservations
       \/ DeleteRelations
       \/ DeleteEntities
    /\ UNCHANGED orderVars
    /\ UNCHANGED gateVars
    /\ UNCHANGED <<textVars, callVars, replyVars>>

SpecGraph == Init /\ [][GraphNext]_vars

(***************************************************************************)
(* Two stores that receive createEntities(E1) and createEntities(E2) in    *)
(* the two orders, from the same graph.                                    *)
(***************************************************************************)
EntitySet(ns) == {NodeProperties(n) : n \in ns}

NamesOf(entities) == {entities[i].name : i \in DOMAIN entities}

\* Lists that are sets of entities: no name twice.
EntitySetInputs ==
    {es \in SeqsUpTo(EntityInputs, MaxEntities) : Cardinality(NamesOf(es)) = Len(es)}

\* The graph both stores start from is built by createEntities calls.
OrderSetup ==
    /\ order.phase = "setup"
    /\ CreateEntities
    /\ altNodes' = nodes'
    /\ altRels' = rels'
    /\ UNCHANGED order
    /\ UNCHANGED gateVars
    /\ UNCHANGED <<textVars, callVars, replyVars>>

OrderChoose ==
    /\ order.phase = "setup"
    /\ \E E1, E2 \in EntitySetInputs :
           /\ NamesOf(E1) \cap NamesOf(E2) = {}
           /\ order' = [phase |-> "chosen", E1 |-> E1, E2 |-> E2, before |-> EntitySet(nodes)]
    /\ UNCHANGED <<nodes, rels, openSessions, last, altNodes, altRels>>
    /\ UNCHANGED gateVars
    /\ UNCHANGED <<textVars, callVars, replyVars>>

\* One store runs createEntities(first), the other createEntities(second).
OrderStep(from, to, first, second) ==
    /\ order.phase = from
    /\ LET r == CreateEntitiesOp(nodes, rels, first)
           a == CreateEntitiesOp(altNodes, altRels, second)
       IN /\ LoadModifySave("createEntities", first, r, r.res, FALSE, "answers")
          /\ altNodes' = a.nodes
          /\ altRels' = a.rels
    /\ order' = [order EXCEPT !.phase = to]
    /\ UNCHANGED gateVars
    /\ UNCHANGED <<textVars, callVars, replyVars>>

OrderFirst == OrderStep("chosen", "first", order.E1, order.E2)

OrderSecond == OrderStep("first", "done", order.E2, order.E1)

OrderNext == OrderSetup \/ OrderChoose \/ OrderFirst \/ OrderSecond

SpecOrder == Init /\ [][OrderNext]_vars

(***************************************************************************)
(* Cypher statements.  A statement is its text, kept as the sequence of    *)
(* its words (what the classifier's regular expression sees), and its      *)
(* clauses (what the store does with it).  needsParams says that the text  *)
(* refers to a $parameter.                                                 *)
(***************************************************************************)
Clause(k, a) == [k |-> k, a |-> a]

\* MATCH (n:TestNode) RETURN n
ReadTests ==
    [id |-> "ReadTests", needsParams |-> FALSE,
     words |-> <<"MATCH", "n", "TestNode", "RETURN", "n">>,
     clauses |-> <<Clause("MatchTest", <<>>), Clause("ReturnRows", <<>>)>>]

\* MATCH (s:SecurityNode) RETURN s.name
ReadTokens ==
    [id |-> "ReadTokens", needsParams |-> FALSE,
     words |-> <<"MATCH", "s", "SecurityNode", "RETURN", "s", "name">>,
     clauses |-> <<Clause("MatchAnySecurity", <<>>), Clause("ReturnNames", <<>>)>>]

\* CREATE (n:TestNode {name: $name}) RETURN n
CreateTest ==
    [id |-> "CreateTest", needsParams |-> TRUE,
     words |-> <<"CREATE", "n", "TestNode", "name", "name", "RETURN", "n">>,
     clauses |-> <<Clause("CreateTest", <<>>), Clause("ReturnRows", <<>>)>>]

\* MATCH (n:TestNode {name: $name}) DELETE n RETURN count(*) as deleted
CleanupTest ==
    [id |-> "CleanupTest", needsParams |-> TRUE,
     words |-> <<"MATCH", "n", "TestNode", "name", "name", "DELETE", "n",
                 "RETURN", "count", "as", "deleted">>,
     clauses |-> <<Clause("MatchTest", <<>>), Clause("DeleteTest", <<>>),
                   Clause("ReturnCount", <<>>)>>]

\* create (n:TestNode {name: "t"})
LowerCreate ==
    [id |-> "LowerCreate", needsParams |-> FALSE,
     words |-> <<"create", "n", "TestNode", "name", "t">>,
     clauses |-> <<Clause("CreateTest", <<>>)>>]

Queries == {ReadTests, ReadTokens, CreateTest, CleanupTest, LowerCreate}

\* MATCH (s:SecurityNode) DELETE s
DeleteTokens ==
    [id |-> "DeleteTokens", needsParams |-> FALSE,
     words |-> <<"MATCH", "s", "SecurityNode", "DELETE", "s">>,
     clauses |-> <<Clause("MatchAnySecurity", <<>>), Clause("DeleteAnySecurity", <<>>)>>]

\* Upper-casing of the words that occur in the statements above (the 'i' flag
\* of the classifier's regular expression).
ToUpperCase(w) ==
    CASE w = "create" -> "CREATE"
      [] w = "name" -> "NAME"
      [] w = "n" -> "N"
      [] w = "s" -> "S"
      [] w = "t" -> "T"
      [] w = "as" -> "AS"
      [] w = "count" -> "COUNT"
      [] w = "deleted" -> "DELETED"
      [] OTHER -> w

writeOperators == {"CREATE", "SET", "DELETE", "REMOVE", "MERGE"}

\* cypher-utils: /\b(CREATE|SET|DELETE|REMOVE|MERGE)\b/i tested on the text.
containsWriteOperations(query) ==
    \E i \in DOMAIN query.words : ToUpperCase(query.words[i]) \in writeOperators

\* A wrapper whose match also asks for a token that has not expired:
\* MATCH (security:SecurityNode {name: ...}) WHERE security.expiresAt > datetime()
wrapWithSecurityCheck_Unexpired(query, securityNodeName) ==
    [id |-> query.id, needsParams |-> query.needsParams,
     words |-> <<"MATCH", "security", "SecurityNode", "name", securityNodeName,
                 "WHERE", "security", "expiresAt", "datetime">> \o query.words,
     clauses |-> <<Clause("MatchFreshSecurity", <<securityNodeName>>)>> \o query.clauses]

\* A wrapper that leaves the statement as it is.
wrapWithSecurityCheck_NoCheck(query, securityNodeName) == query

\* cypher-utils: the token match is put in front of the statement's text.
wrapWithSecurityCheck(query, securityNodeName) ==
    [id |-> query.id, needsParams |-> query.needsParams,
     words |-> <<"Security", "check", "to", "ensure", "only", "authorized",
                 "operations", "are", "performed",
                 "MATCH", "security", "SecurityNode", "name", securityNodeName,
                 "WITH", "security", "WHERE", "security", "IS", "NOT", "NULL",
                 "Original", "query", "follows">> \o query.words,
     clauses |-> <<Clause("MatchSecurity", <<securityNodeName>>)>> \o query.clauses]

(***************************************************************************)
(* What the store does with a statement.  Rows flow through the clauses:   *)
(* a MATCH multiplies them by its matches, a write clause acts once per    *)
(* row, an aggregating RETURN gives one row whatever came in.              *)
(***************************************************************************)
RECURSIVE SumOver(_, _)
SumOver(f, S) ==
    IF S = {} THEN 0
    ELSE LET x == CHOOSE y \in S : TRUE IN f[x] + SumOver(f, S \ {x})

Held(d) == {t \in TokenNames : d.tokens[t] > 0}

\* db.tokens[t] counts the SecurityNodes named t, db.aged[t] those of them whose
\* expiresAt lies in the past.
RunClause(st, c) ==
    CASE c.k = "MatchSecurity" ->
            [st EXCEPT !.rows = st.rows * st.db.tokens[c.a[1]]]
      [] c.k = "MatchFreshSecurity" ->
            [st EXCEPT !.rows = st.rows * (st.db.tokens[c.a[1]] - st.db.aged[c.a[1]])]
      [] c.k = "MatchAnySecurity" ->
            [st EXCEPT !.rows = st.rows * SumOver(st.db.tokens, TokenNames),
                       !.bound = Held(st.db)]
      [] c.k = "MatchTest" ->
            [st EXCEPT !.rows = st.rows * st.db.tests]
      [] c.k = "MatchOntology" ->
            [st EXCEPT !.rows = st.rows * st.db.ontologies[c.a[1]]]
      [] c.k = "MatchAnyOntology" ->
            [st EXCEPT !.rows = st.rows * SumOver(st.db.ontologies, Subjects)]
      [] c.k = "CreateSecurity" ->
            [st EXCEPT !.db.tokens[c.a[1]] = @ + st.rows]
      [] c.k = "CreateTest" ->
            [st EXCEPT !.db.tests = @ + st.rows]
      [] c.k = "CreateOntology" ->
            [st EXCEPT !.db.ontologies[c.a[1]] = @ + st.rows]
      [] c.k = "MergeLink" ->
            [st EXCEPT !.db.links = IF st.rows > 0 THEN @ \cup {c.a} ELSE @]
      [] c.k = "DeleteSecurity" ->
            [st EXCEPT !.db.tokens[c.a[1]] = IF st.rows > 0 THEN 0 ELSE @,
                       !.db.aged[c.a[1]] = IF st.rows > 0 THEN 0 ELSE @]
      [] c.k = "DeleteAnySecurity" ->
            [st EXCEPT !.db.tokens = IF st.rows > 0 THEN [t \in TokenNames |-> 0] ELSE @,
                       !.db.aged = IF st.rows > 0 THEN [t \in TokenNames |-> 0] ELSE @]
      [] c.k = "DeleteTest" ->
            [st EXCEPT !.db.tests = IF st.rows > 0 THEN 0 ELSE @]
      [] c.k = "ReturnRows" ->
            [st EXCEPT !.ret = st.rows]
      [] c.k = "ReturnNames" ->
            [st EXCEPT !.ret = st.rows,
                       !.names = IF st.rows > 0 THEN st.bound ELSE {}]
      [] c.k = "ReturnCount" ->
            [st EXCEPT !.ret = 1]
      [] OTHER ->
            [st EXCEPT !.error = TRUE]

RECURSIVE RunClauses(_, _, _)
RunClauses(st, clauses, i) ==
    IF i > Len(clauses) THEN st
    ELSE RunClauses(RunClause(st, clauses[i]), clauses, i + 1)

\* session.executeWrite / executeRead: the statement runs in one transaction,
\* which is rolled back when the statement is rejected, when it refers to a
\* parameter that was not passed, when it writes in a read transaction, or
\* when the store does not answer.
\* The result is the state of the store, the records mapped to objects (their
\* number and the token names they show) and what was thrown.
HasWriteClause(query) ==
    \E i \in DOMAIN query.clauses :
        query.clauses[i].k \in {"CreateSecurity", "CreateTest", "CreateOntology",
                                "MergeLink", "DeleteSecurity", "DeleteAnySecurity",
                                "DeleteTest"}

Transaction(d, query, hasParams, isWrite, outcome) ==
    LET st == RunClauses([db |-> d, rows |-> 1, ret |-> 0, bound |-> {},
                          names |-> {}, error |-> FALSE], query.clauses, 1)
        cause == IF outcome = "fails" THEN "store"
                 ELSE IF query.needsParams /\ ~hasParams THEN "parameter"
                 ELSE IF st.error THEN "syntax"
                 ELSE IF ~isWrite /\ HasWriteClause(query) THEN "readonly"
                 ELSE "none"
    IN  IF cause = "none"
        THEN [db |-> st.db, rows |-> st.ret, names |-> st.names, cause |-> cause]
        ELSE [db |-> d, rows |-> 0, names |-> {}, cause |-> cause]

\* Neo4jMemory.executeCypherQuery opens a session and closes it in finally.
ExecuteCypherQuerySessions == 0

\* Every count the model keeps stays within its bound.
WithinBounds(d) ==
    /\ \A t \in TokenNames : d.tokens[t] <= MaxTokenCopies
    /\ d.tests <= MaxTestNodes
    /\ \A s \in Subjects : d.ontologies[s] <= MaxOntologyCopies

\* CREATE (s:SecurityNode {name: $name, ...}) RETURN s
createSecurityNodeQuery(name) ==
    [id |-> "createSecurityNode", needsParams |-> TRUE,
     words |-> <<"CREATE", "s", "SecurityNode", "name", "name", "createdAt",
                 "datetime", "expiresAt", "datetime", "duration", "minutes",
                 "5", "RETURN", "s">>,
     clauses |-> <<Clause("CreateSecurity", <<name>>), Clause("ReturnRows", <<>>)>>]

\* The statement of removeSecurityNode without its DELETE.
removeSecurityNodeQuery_NoDelete(name) ==
    [id |-> "removeSecurityNode", needsParams |-> TRUE,
     words |-> <<"MATCH", "s", "SecurityNode", "name", "name",
                 "RETURN", "count", "as", "nodesDeleted">>,
     clauses |-> <<Clause("MatchSecurity", <<name>>), Clause("ReturnCount", <<>>)>>]

\* MATCH (s:SecurityNode {name: $name}) DELETE s RETURN count(*) as nodesDeleted
removeSecurityNodeQuery(name) ==
    [id |-> "removeSecurityNode", needsParams |-> TRUE,
     words |-> <<"MATCH", "s", "SecurityNode", "name", "name", "DELETE", "s",
                 "RETURN", "count", "as", "nodesDeleted">>,
     clauses |-> <<Clause("MatchSecurity", <<name>>), Clause("DeleteSecurity", <<name>>),
                   Clause("ReturnCount", <<>>)>>]

(***************************************************************************)
(* The query calls: the token functions of Neo4jMemory, a gated statement  *)
(* run the way executeSecureWriteOperation runs it, and the                 *)
(* safe_cypher_query tool.                                                  *)
(***************************************************************************)
\* params of a call: not passed, {name: 't', force: 'true'}, or {name: 't'}.
ParamsInputs == {"absent", "force", "other"}

GateOutcomes == {"answers", "fails"}

\* One executeCypherQuery call and the record of it.
QueryCall(op, query, prepared, name, params, isWrite, outcome) ==
    LET r == Transaction(db, prepared, params # "absent", isWrite, outcome)
    IN  /\ WithinBounds(r.db)
        /\ db' = r.db
        /\ known' = IF op = "safe" THEN known \cup r.names ELSE known
        /\ lastQ' = [op |-> op, query |-> query.id, name |-> name, params |-> params,
                     kind |-> IF r.cause = "none" THEN "result" ELSE "error",
                     cause |-> r.cause, rows |-> r.rows,
                     executed |-> (outcome = "answers"),
                     changed |-> (r.db # db),
                     held |-> IF name = NoName THEN 0 ELSE db.tokens[name],
                     aged |-> IF name = NoName THEN 0 ELSE db.aged[name],
                     before |-> db.tests,
                     unit |-> IF isWrite THEN "executeWrite" ELSE "executeRead",
                     wrapped |-> (prepared # query)]

\* A call that returns before any statement is sent.
NoQueryCall(query, name, params, kind, cause) ==
    /\ lastQ' = [op |-> "safe", query |-> query.id, name |-> name, params |-> params,
                 kind |-> kind, cause |-> cause, rows |-> 0, executed |-> FALSE,
                 changed |-> FALSE,
                 held |-> IF name = NoName THEN 0 ELSE db.tokens[name],
                 aged |-> IF name = NoName THEN 0 ELSE db.aged[name],
                 before |-> db.tests,
                 unit |-> "none", wrapped |-> FALSE]
    /\ UNCHANGED <<db, known>>

CreateSecurityNode ==
    \E t \in ScriptTokens, outcome \in GateOutcomes :
        /\ QueryCall("issue", createSecurityNodeQuery(t), createSecurityNodeQuery(t),
                     t, "other", TRUE, outcome)
        /\ UNCHANGED <<graphVars, orderVars, env, wf, textVars, callVars, replyVars>>

RemoveSecurityNode ==
    \E t \in ScriptTokens, outcome \in GateOutcomes :
        /\ QueryCall("revoke", removeSecurityNodeQuery(t), removeSecurityNodeQuery(t),
                     t, "other", TRUE, outcome)
        /\ UNCHANGED <<graphVars, orderVars, env, wf, textVars, callVars, replyVars>>

\* executeSecureWriteOperation, lines 70-73: the statement is wrapped with the
\* token's name and run as a write with its parameters.
ExecuteGated ==
    \E q \in Queries, t \in ScriptTokens, outcome \in GateOutcomes :
        /\ containsWriteOperations(q)
        /\ QueryCall("gated", q, wrapWithSecurityCheck(q, t), t, "other", TRUE, outcome)
        /\ UNCHANGED <<graphVars, orderVars, env, wf, textVars, callVars, replyVars>>

\* The token names a caller of the tool can pass: none, a guess, or a name it
\* has read in an earlier result.
NameInputs == {NoName, GuessedName} \cup known

\* A handler that wraps every statement that comes with a token name and runs
\* every statement in a write transaction.
HandleSafeCypherQuery_AlwaysWrite(query, securityNodeName, params, outcome) ==
        LET hasWriteOps == containsWriteOperations(query)
            allowUnsafeQueries == env.unsafe
            throws == env.allowInsist /\ params = "absent"
            user_insists == env.allowInsist /\ params = "force"
            preparedQuery ==
                IF securityNodeName # NoName /\ ~allowUnsafeQueries
                THEN wrapWithSecurityCheck(query, securityNodeName)
                ELSE query
        IN  /\ IF throws
               THEN NoQueryCall(query, securityNodeName, params, "error", "TypeError")
               ELSE IF hasWriteOps /\ securityNodeName = NoName
                       /\ ~allowUnsafeQueries /\ ~user_insists
               THEN NoQueryCall(query, securityNodeName, params, "refusal", "none")
               ELSE QueryCall("safe", query, preparedQuery, securityNodeName, params,
                              TRUE, outcome)
            /\ UNCHANGED <<graphVars, orderVars, env, wf, textVars, callVars, replyVars>>

\* CallTool handler, case 'safe_cypher_query'.
HandleSafeCypherQuery(query, securityNodeName, params, outcome) ==
        LET hasWriteOps == containsWriteOperations(query)
            allowUnsafeQueries == env.unsafe
            throws == env.allowInsist /\ params = "absent"
            user_insists == env.allowInsist /\ params = "force"
            preparedQuery ==
                IF hasWriteOps /\ securityNodeName # NoName /\ ~allowUnsafeQueries
                THEN wrapWithSecurityCheck(query, securityNodeName)
                ELSE query
        IN  /\ IF throws
               THEN NoQueryCall(query, securityNodeName, params, "error", "TypeError")
               ELSE IF hasWriteOps /\ securityNodeName = NoName
                       /\ ~allowUnsafeQueries /\ ~user_insists
               THEN NoQueryCall(query, securityNodeName, params, "refusal", "none")
               ELSE QueryCall("safe", query, preparedQuery, securityNodeName, params,
                              hasWriteOps, outcome)
            /\ UNCHANGED <<graphVars, orderVars, env, wf, textVars, callVars, replyVars>>

SafeCypherQuery ==
    \E query \in Queries, securityNodeName \in NameInputs,
       params \in ParamsInputs, outcome \in GateOutcomes :
        HandleSafeCypherQuery(query, securityNodeName, params, outcome)

\* Time passes: the expiresAt of every token in the store, set five minutes
\* after its creation, now lies in the past.  No code runs.
FiveMinutesPass ==
    /\ db.aged # db.tokens
    /\ db' = [db EXCEPT !.aged = db.tokens]
    /\ UNCHANGED <<graphVars, orderVars, env, known, lastQ, wf, textVars, callVars, replyVars>>

EnvInputs == [unsafe : BOOLEAN, allowInsist : BOOLEAN]

GateInit ==
    /\ nodes = {}
    /\ rels = {}
    /\ openSessions = 0
    /\ last = [op |-> "none", args |-> <<>>, status |-> Ok, res |-> <<>>]
    /\ altNodes = {}
    /\ altRels = {}
    /\ order = [phase |-> "setup", E1 |-> <<>>, E2 |-> <<>>, before |-> {}]
    /\ db = EmptyDb
    /\ env \in EnvInputs
    /\ known = {}
    /\ lastQ = NoCall
    /\ wf = IdleWf
    /\ cls = NoText
    /\ calls = NoCalls
    /\ reply = NoReply

GateNext ==
    \/ CreateSecurityNode
    \/ RemoveSecurityNode
    \/ ExecuteGated
    \/ SafeCypherQuery
    \/ FiveMinutesPass

SpecGate == GateInit /\ [][GateNext]_vars

(***************************************************************************)
(***************************************************************************)
(* The classifier on the characters of a text.  A text is a sequence of    *)
(* one-character strings.                                                  *)
(***************************************************************************)
UpperLetters == {"A", "C", "D", "E", "G", "L", "M", "O", "R", "S", "T", "V"}
LowerLetters == {"a", "c", "d", "e", "f", "g", "l", "m", "o", "r", "s", "t", "v"}
Digits == {"1"}

\* \w of the regular expression: letters, digits and the underscore.
IsWordChar(c) == c \in UpperLetters \cup LowerLetters \cup Digits \cup {"_"}

\* Canonicalisation under the 'i' flag: the character in upper case.
ToUpperChar(c) ==
    CASE c = "a" -> "A" [] c = "c" -> "C" [] c = "d" -> "D" [] c = "e" -> "E"
      [] c = "f" -> "F" [] c = "g" -> "G" [] c = "l" -> "L" [] c = "m" -> "M"
      [] c = "o" -> "O" [] c = "r" -> "R" [] c = "s" -> "S" [] c = "t" -> "T"
      [] c = "v" -> "V" [] OTHER -> c

ToUpperText(text) == [i \in DOMAIN text |-> ToUpperChar(text[i])]

\* writeOperators, spelled out in characters.
writeOperatorTexts ==
    {<<"C", "R", "E", "A", "T", "E">>, <<"S", "E", "T">>,
     <<"D", "E", "L", "E", "T", "E">>, <<"R", "E", "M", "O", "V", "E">>,
     <<"M", "E", "R", "G", "E">>}

\* Whether the character at position p is a word character; positions before
\* the first and after the last character hold none.
IsWordAt(text, p) == p \in DOMAIN text /\ IsWordChar(text[p])

\* \b at the position in front of character p: exactly one side is a word character.
WordBoundary(text, p) == IsWordAt(text, p - 1) # IsWordAt(text, p)

\* The regular expression without its \b assertions.
regexTest_NoBoundary(text) ==
    \E op \in writeOperatorTexts, i \in DOMAIN text :
        /\ i + Len(op) - 1 <= Len(text)
        /\ \A k \in DOMAIN op : ToUpperChar(text[i + k - 1]) = ToUpperChar(op[k])

\* new RegExp('\\b(CREATE|SET|DELETE|REMOVE|MERGE)\\b', 'i').test(text)
regexTest(text) ==
    \E op \in writeOperatorTexts, i \in DOMAIN text :
        /\ i + Len(op) - 1 <= Len(text)
        /\ WordBoundary(text, i)
        /\ \A k \in DOMAIN op : ToUpperChar(text[i + k - 1]) = ToUpperChar(op[k])
        /\ WordBoundary(text, i + Len(op))

\* The pieces query texts are put together from: the operators in several
\* letter cases, another word, and characters that are or are not word characters.
Chunks ==
    {<<"C", "R", "E", "A", "T", "E">>, <<"c", "r", "e", "a", "t", "e">>,
     <<"S", "e", "t">>, <<"D", "E", "L", "E", "T", "E">>,
     <<"r", "e", "m", "o", "v", "e">>, <<"M", "E", "R", "G", "E">>,
     <<"f", "o", "o">>, <<" ">>, <<"'">>, <<".">>, <<"_">>, <<"1">>}

\* A caller writes its query piece by piece.
AppendChunk ==
    \E chunk \in Chunks :
        /\ ~cls.done
        /\ cls.chunks < MaxChunks
        /\ cls' = [cls EXCEPT !.text = cls.text \o chunk, !.chunks = cls.chunks + 1]
        /\ UNCHANGED <<graphVars, orderVars, gateVars, callVars, replyVars>>

\* containsWriteOperations(query)
Classify ==
    /\ ~cls.done
    /\ cls' = [cls EXCEPT !.done = TRUE, !.isWrite = regexTest(cls.text)]
    /\ UNCHANGED <<graphVars, orderVars, gateVars, callVars, replyVars>>

ClassifyNext == AppendChunk \/ Classify

SpecClassify == Init /\ [][ClassifyNext]_vars

(***************************************************************************)
(* Neo4jMemory.searchNodes, on the characters of the strings.              *)
(***************************************************************************)
\* The characters of the names, types and observations of the model.
Characters(s) ==
    CASE s = "A" -> <<"A">>
      [] s = "B" -> <<"B">>
      [] s = "person" -> <<"p", "e", "r", "s", "o", "n">>
      [] s = "place" -> <<"p", "l", "a", "c", "e">>
      [] s = "o1" -> <<"o", "1">>
      [] s = "o2" -> <<"o", "2">>

\* String.prototype.toLowerCase, one character.
ToLowerChar(c) ==
    CASE c = "A" -> "a" [] c = "B" -> "b" [] c = "E" -> "e" [] c = "N" -> "n"
      [] c = "O" -> "o" [] c = "P" -> "p" [] c = "R" -> "r" [] c = "S" -> "s"
      [] OTHER -> c

toLowerCase(text) == [i \in DOMAIN text |-> ToLowerChar(text[i])]

\* String.prototype.includes: part occurs in text as a contiguous piece.
includes(text, part) ==
    \E i \in 0..(Len(text) - Len(part)) : SubSeq(text, i + 1, i + Len(part)) = part

\* The filter of searchNodes on one entity, left to right.
SearchFilter(e, query) ==
    \/ includes(toLowerCase(query), toLowerCase(Characters(e.name)))
    \/ includes(toLowerCase(query), toLowerCase(Characters(e.entityType)))
    \/ \E i \in DOMAIN e.observations :
           includes(toLowerCase(Characters(e.observations[i])), toLowerCase(query))

\* The filter reads a property that is undefined: e.name, or, when the tests
\* before it fail, e.entityType and then e.observations.
SearchFilterThrows(e, query) ==
    \/ e.name = Undefined
    \/ /\ ~includes(toLowerCase(query), toLowerCase(Characters(e.name)))
       /\ \/ e.entityType = Undefined
          \/ /\ ~includes(toLowerCase(query), toLowerCase(Characters(e.entityType)))
             /\ e.observations = UndefinedArray

\* searchNodes: load, keep the entities the filter accepts and the relations
\* whose from and to are names of kept entities. res holds the one graph
\* returned.
SearchNodesOp(ns, rs, query) ==
    LET graph == LoadGraph(ns, rs)
        threw == \E i \in DOMAIN graph.entities : SearchFilterThrows(graph.entities[i], query)
        keep == {i \in DOMAIN graph.entities : SearchFilter(graph.entities[i], query)}
        filteredEntities == FilterIdx(graph.entities, keep, 1)
        filteredEntityNames == {filteredEntities[i].name : i \in DOMAIN filteredEntities}
        keepRelations == {i \in DOMAIN graph.relations :
                             /\ graph.relations[i].from \in filteredEntityNames
                             /\ graph.relations[i].to \in filteredEntityNames}
    IN IF threw THEN [threw |-> TRUE, res |-> <<>>]
       ELSE [threw |-> FALSE,
             res |-> <<[entities |-> filteredEntities,
                        relations |-> FilterIdx(graph.relations, keepRelations, 1)]>>]

TypeError == "TypeError"

\* Queries a caller searches with: a name in either letter case, a type in
\* upper case, parts of a type and of an observation, texts that contain a
\* name, a type or an observation, and a text that matches nothing.
SearchQueries ==
    {<<"a">>, <<"B">>, <<"P", "E", "R", "S", "O", "N">>, <<"p", "e", "r">>,
     <<"o">>, <<"o", "1">>, <<"x", "o", "1">>,
     <<"b", " ", "p", "l", "a", "c", "e">>, <<"z">>}

SearchNodes ==
    \E query \in SearchQueries, outcome \in {"answers", "failsInLoad"} :
        /\ UNCHANGED <<nodes, rels, openSessions>>
        /\ IF outcome = "failsInLoad"
           THEN last' = [op |-> "searchNodes", args |-> query, status |-> StoreError, res |-> <<>>]
           ELSE LET r == SearchNodesOp(nodes, rels, query)
                IN last' = [op |-> "searchNodes", args |-> query,
                            status |-> IF r.threw THEN TypeError ELSE Ok, res |-> r.res]

\* openNodes: load, keep the entities whose name is listed and the relations
\* whose from and to are names of kept entities. res holds the one graph
\* returned.
OpenNodesOp(ns, rs, names) ==
    LET graph == LoadGraph(ns, rs)
        keep == {i \in DOMAIN graph.entities : graph.entities[i].name \in Range(names)}
        filteredEntities == FilterIdx(graph.entities, keep, 1)
        filteredEntityNames == {filteredEntities[i].name : i \in DOMAIN filteredEntities}
        keepRelations == {i \in DOMAIN graph.relations :
                             /\ graph.relations[i].from \in filteredEntityNames
                             /\ graph.relations[i].to \in filteredEntityNames}
    IN <<[entities |-> filteredEntities,
          relations |-> FilterIdx(graph.relations, keepRelations, 1)]>>

OpenNodes ==
    \E names \in SeqsUpTo(Names, MaxEntities), outcome \in {"answers", "failsInLoad"} :
        /\ UNCHANGED <<nodes, rels, openSessions>>
        /\ IF outcome = "failsInLoad"
           THEN last' = [op |-> "openNodes", args |-> names, status |-> StoreError, res |-> <<>>]
           ELSE last' = [op |-> "openNodes", args |-> names, status |-> Ok,
                         res |-> OpenNodesOp(nodes, rels, names)]

SearchNext ==
    /\ \/ CreateEntities
       \/ CreateRelations
       \/ SearchNodes
       \/ OpenNodes
    /\ UNCHANGED orderVars
    /\ UNCHANGED gateVars
    /\ UNCHANGED <<textVars, callVars, replyVars>>

SpecSearch == Init /\ [][SearchNext]_vars

(***************************************************************************)
(* Properties of the graph store adapter.                                  *)
(***************************************************************************)
Loaded == LoadGraph(nodes, rels)

\* C1: load() never returns two entities with the same name, whatever
\* sequence of adapter calls ran and whatever lists createEntities was given.
C1_UniqueNames ==
    \A i, j \in DOMAIN Loaded.entities :
        Loaded.entities[i].name = Loaded.entities[j].name => i = j

\* createEntities returned after a list with the same name twice: both were
\* reported as added, and the store holds one entity of that name.
C1_Witness ==
    /\ last.op = "createEntities"
    /\ last.status = Ok
    /\ Len(last.args) = 2
    /\ last.args[1].name = last.args[2].name
    /\ Len(last.res) = 2
    /\ \E i \in DOMAIN Loaded.entities : Loaded.entities[i].name = last.args[1].name

\* C2: an addObservations call leaves every observation list that was free of
\* duplicates free of duplicates, whatever its contents lists are.
C2_NoDuplicateObservations ==
    [][(last'.op = "addObservations" /\ last'.status = Ok)
          => \A m \in nodes' :
                 (\A n \in nodes : n.id = m.id => NoDup(n.observations))
                     => NoDup(m.observations)]_vars

\* C3: after deleteEntities(names) returned, load() holds no entity named in
\* names, and no relation of the store starts or ends at a deleted entity.
C3_DeleteCascade ==
    (last.op = "deleteEntities" /\ last.status = Ok) =>
        /\ \A i \in DOMAIN Loaded.entities : Loaded.entities[i].name \notin Range(last.args)
        /\ \A i \in DOMAIN Loaded.relations :
               /\ Loaded.relations[i].from \notin Range(last.args)
               /\ Loaded.relations[i].to \notin Range(last.args)
        /\ \A r \in rels :
               /\ \E n \in nodes : n.id = r.src /\ n.name \notin Range(last.args)
               /\ \E n \in nodes : n.id = r.dst /\ n.name \notin Range(last.args)

\* deleteEntities removed some entity and left another one in the store.
C3_Witness ==
    /\ last.op = "deleteEntities"
    /\ last.status = Ok
    /\ last.args # <<>>
    /\ nodes # {}
    /\ \A n \in nodes : n.name \notin Range(last.args)

\* C4: a relation written by createRelations whose two endpoint entities
\* exist is returned by a later load() with the same from, to and relationType.
C4_RelationRoundTrip ==
    (last.op = "createRelations" /\ last.status = Ok) =>
        \A i \in DOMAIN last.args :
            (/\ \E n \in nodes : n.name = last.args[i].from
             /\ \E n \in nodes : n.name = last.args[i].to)
                => \E j \in DOMAIN Loaded.relations :
                       /\ Loaded.relations[j].from = last.args[i].from
                       /\ Loaded.relations[j].to = last.args[i].to
                       /\ Loaded.relations[j].relationType = last.args[i].relationType

\* C9: between adapter calls no session is open.
C9_SessionsReleased == openSessions = 0

\* What saveGraph stores for an entity passed to createEntities.
StoredEntity(e) ==
    [entityID |-> e.name, name |-> e.name, entityType |-> e.entityType,
     observations |-> IF e.observations = UndefinedArray THEN <<>> ELSE e.observations]

\* C10: for E1 and E2 with disjoint names, createEntities(E1) then
\* createEntities(E2) adds exactly the entities of E1 and E2 whose name the
\* graph did not have, leaves no name twice, and the other order gives the
\* same set of entities.
C10_DisjointUnion ==
    order.phase = "done" =>
        LET inputs == Range(order.E1) \cup Range(order.E2)
            had == {e.name : e \in order.before}
        IN /\ EntitySet(nodes) =
                  order.before \cup {StoredEntity(e) : e \in {x \in inputs : x.name \notin had}}
           /\ Cardinality({n.name : n \in nodes}) = Cardinality(nodes)
           /\ EntitySet(altNodes) = EntitySet(nodes)

\* Both orders ran with two non-empty sets, one of them naming an entity the
\* graph already had with other fields.
C10_Witness ==
    /\ order.phase = "done"
    /\ order.E1 # <<>>
    /\ order.E2 # <<>>
    /\ \E e \in order.before, i \in DOMAIN order.E1 :
           e.name = order.E1[i].name /\ e.entityType # order.E1[i].entityType
    /\ Cardinality(nodes) = 2

StoredNames(ns) == {n.name : n \in ns}

\* C11: a createEntities call returns no entity whose name the graph had, and
\* leaves name, entityType and observations of every stored entity as they
\* were, whatever the call supplied for that name.
C11_IdempotentOnName ==
    [][(last'.op = "createEntities" /\ last'.status = Ok)
          => /\ \A i \in DOMAIN last'.res : last'.res[i].name \notin StoredNames(nodes)
             /\ \A n \in nodes :
                    \E m \in nodes' : /\ m.id = n.id
                                      /\ NodeProperties(m) = NodeProperties(n)]_vars

\* createEntities was called with an entity whose name the graph had with
\* another entityType: nothing was returned as added and the stored entity
\* still has its own type.
C11_Witness ==
    /\ last.op = "createEntities"
    /\ last.status = Ok
    /\ Len(last.args) = 1
    /\ last.res = <<>>
    /\ \E n \in nodes : /\ n.name = last.args[1].name
                        /\ n.entityType # last.args[1].entityType
                        /\ n.observations # <<>>

\* C12: createEntities returns an input entity if and only if its name was
\* absent from the graph before the call, and the returned list has one
\* element per entity the call added to the store.
C12_ReturnsAppended ==
    [][(last'.op = "createEntities" /\ last'.status = Ok)
          => /\ \A i \in DOMAIN last'.args :
                    (\E j \in DOMAIN last'.res : last'.res[j].name = last'.args[i].name)
                        <=> last'.args[i].name \notin StoredNames(nodes)
             /\ Len(last'.res) = Cardinality(nodes') - Cardinality(nodes)]_vars

\* The identity triples of the relationships of the store, read from their
\* endpoints (the relation records of load() carry no from and to).
StoreTriples(ns, rs) ==
    {<<x[1].name, x[2].name, x[3].relationType>> :
        x \in {y \in ns \X ns \X rs : y[1].id = y[3].src /\ y[2].id = y[3].dst}}

Triple(r) == <<r.from, r.to, r.relationType>>

Triples(relations) == {Triple(relations[i]) : i \in DOMAIN relations}

\* C13: after deleteRelations(R) the graph holds no relation with the triple
\* of a relation in R, and every relation with another triple is still there.
C13_RelationsDeleted ==
    [][(last'.op = "deleteRelations" /\ last'.status = Ok)
          => StoreTriples(nodes', rels') = StoreTriples(nodes, rels) \ Triples(last'.args)]_vars

\* The values a deleteObservations request lists for the entity of a name.
Listed(deletions, name) ==
    UNION {Range(deletions[i].observations) :
              i \in {j \in DOMAIN deletions : deletions[j].entityName = name}}

\* s without the values of a set, the others in their order.
Without(s, values) == FilterIdx(s, {i \in DOMAIN s : s[i] \notin values}, 1)

\* C14: deleteObservations raises no error for a target that does not exist,
\* and leaves every entity (one whose list held no value twice) with its
\* previous list less the values listed for it, the others in their order,
\* also when the request repeats a value or names one the entity has not.
C14_ObservationsRemoved ==
    [][(last'.op = "deleteObservations" /\ last'.status # StoreError)
          => /\ last'.status = Ok
             /\ \A n \in nodes :
                    NoDup(n.observations) =>
                        \E m \in nodes' :
                            /\ m.id = n.id
                            /\ m.observations =
                                   Without(n.observations, Listed(last'.args, n.name))]_vars

\* C15: addObservations throws not-found exactly when one of its entries
\* names an entity the graph does not have, and then the store is as it was.
C15_NotFoundChangesNothing ==
    [][(last'.op = "addObservations" /\ last'.status # StoreError)
          => /\ last'.status = NotFound <=>
                    \E i \in DOMAIN last'.args :
                        last'.args[i].entityName \notin StoredNames(nodes)
             /\ last'.status = NotFound => (nodes' = nodes /\ rels' = rels)]_vars

\* addObservations threw for its second entry after a first entry that named
\* an existing entity and a value that entity does not have.
C15_Witness ==
    /\ last.op = "addObservations"
    /\ last.status = NotFound
    /\ Len(last.args) = 2
    /\ last.args[2].entityName \notin StoredNames(nodes)
    /\ \E n \in nodes : /\ n.name = last.args[1].entityName
                        /\ \E i \in DOMAIN last.args[1].contents :
                               last.args[1].contents[i] \notin Range(n.observations)

\* C16: createRelations returns exactly the input relations whose triple the
\* graph did not have (a second call with the same relation returns none),
\* and the store holds at most one relation per triple.
C16_RelationsDeduplicated ==
    [][(last'.op = "createRelations" /\ last'.status = Ok)
          => /\ \A i \in DOMAIN last'.args :
                    (last'.args[i] \in Range(last'.res))
                        <=> Triple(last'.args[i]) \notin StoreTriples(nodes, rels)
             /\ \A r1, r2 \in rels' :
                    (r1.src = r2.src /\ r1.dst = r2.dst /\ r1.relationType = r2.relationType)
                        => r1 = r2]_vars

\* C17: createRelations with a relation whose from or to names no entity
\* raises no error, creates no entity, and stores no relation for it: every
\* relationship of the store joins two stored entities.
C17_MissingEndpointSkipped ==
    [][(last'.op = "createRelations" /\ last'.status # StoreError)
          => /\ last'.status = Ok
             /\ nodes' = nodes
             /\ \A r \in rels' : r.src \in NodeIds' /\ r.dst \in NodeIds'
             /\ \A i \in DOMAIN last'.args :
                    (last'.args[i].from \notin StoredNames(nodes)
                        \/ last'.args[i].to \notin StoredNames(nodes))
                    => Triple(last'.args[i]) \notin StoreTriples(nodes', rels')]_vars

\* createRelations returned after a list whose first relation starts at a
\* missing entity and whose second joins stored entities: one relationship.
C17_Witness ==
    /\ last.op = "createRelations"
    /\ last.status = Ok
    /\ Len(last.args) = 2
    /\ last.args[1].from \notin StoredNames(nodes)
    /\ last.args[2].from \in StoredNames(nodes)
    /\ last.args[2].to \in StoredNames(nodes)
    /\ Cardinality(rels) = 1

\* C18: every relation load() returns has a from and a to that are names of
\* entities of the same load().
C18_EndpointsLoaded ==
    \A i \in DOMAIN Loaded.relations :
        /\ Loaded.relations[i].from \in NamesOf(Loaded.entities)
        /\ Loaded.relations[i].to \in NamesOf(Loaded.entities)

(***************************************************************************)
(* create_base_ontology: handleCreateBaseOntology, one action per await.   *)
(* The text-generation collaborator is an input: it fails or answers, and  *)
(* what it answers is drawn from a few shapes.                             *)
(***************************************************************************)
\* generateSecurityNodeName: a name no earlier request was given.
generateSecurityNodeName(n) ==
    CASE n = 1 -> "w1" [] n = 2 -> "w2" [] OTHER -> "w3"

\* MATCH (p:BaseOntology {subject: $parentName}) RETURN p
parentCheckQuery(parent) ==
    [id |-> "parentCheck", needsParams |-> TRUE,
     words |-> <<"MATCH", "p", "BaseOntology", "subject", "parentName", "RETURN", "p">>,
     clauses |-> <<Clause("MatchOntology", <<parent>>), Clause("ReturnRows", <<>>)>>]

\* MATCH (bo:BaseOntology) RETURN bo
existingOntologiesQuery ==
    [id |-> "existingOntologies", needsParams |-> FALSE,
     words |-> <<"MATCH", "bo", "BaseOntology", "RETURN", "bo">>,
     clauses |-> <<Clause("MatchAnyOntology", <<>>), Clause("ReturnRows", <<>>)>>]

\* The statements the collaborator is asked for: it may put the token match
\* in front as the prompt asks, leave it out, or return text that is no Cypher.
GeneratedQuery(kind, subject, token) ==
    [id |-> kind, needsParams |-> TRUE,
     words |-> IF kind = "invalid" THEN <<"not", "cypher">>
               ELSE <<"CREATE", "bo", "BaseOntology", "subject", "subject">>,
     clauses |-> CASE kind = "gated" ->
                        <<Clause("MatchSecurity", <<token>>),
                          Clause("CreateOntology", <<subject>>)>>
                   [] kind = "ungated" ->
                        <<Clause("CreateOntology", <<subject>>)>>
                   [] OTHER ->
                        <<Clause("Invalid", <<>>)>>]

GeneratedInputs ==
    {<<>>, <<"gated">>, <<"ungated">>, <<"invalid">>, <<"ungated", "invalid">>}

\* createBaseOntology, lines 263-271: the parent link, gated on the token.
relationshipQuery(subject, parent, token) ==
    [id |-> "linkParent", needsParams |-> TRUE,
     words |-> <<"MATCH", "security", "SecurityNode", "name", "securityNodeName",
                 "WITH", "security", "WHERE", "security", "IS", "NOT", "NULL",
                 "MATCH", "child", "BaseOntology", "subject", "subject",
                 "MATCH", "parentBo", "BaseOntology", "subject", "parentName",
                 "MERGE", "parentBo", "PARENT_OF", "child",
                 "MERGE", "child", "CHILD_OF", "parentBo">>,
     clauses |-> <<Clause("MatchSecurity", <<token>>),
                   Clause("MatchOntology", <<subject>>),
                   Clause("MatchOntology", <<parent>>),
                   Clause("MergeLink", <<parent, subject>>)>>]

\* createOntologyConnections: the connecting statement the collaborator returns.
connectionsQuery(kind, subject, other, token) ==
    [id |-> "connections", needsParams |-> TRUE,
     words |-> <<"MATCH", "a", "BaseOntology", "MATCH", "b", "BaseOntology",
                 "CREATE", "a", "RELATED_TO", "b">>,
     clauses |-> (IF kind = "gated" THEN <<Clause("MatchSecurity", <<token>>)>> ELSE <<>>)
                 \o <<Clause("MatchOntology", <<subject>>),
                      Clause("MatchOntology", <<other>>),
                      Clause("MergeLink", <<other, subject>>)>>]

\* Confidence of a proposed connection in tenths, and the filter's threshold.
Confidences == {6, 7, 8}
Threshold == 7

FlowVars == <<graphVars, orderVars, env, known, lastQ, textVars, callVars, replyVars>>

\* The request returns from the protected block with no finally.
ToRevoke_NoFinally(pending) ==
    [wf EXCEPT !.pc = "returned", !.outcome = pending, !.queue = <<>>]

\* The request leaves the protected block: finally runs removeSecurityNode.
ToRevoke(pending) == [wf EXCEPT !.pc = "revoke", !.pending = pending, !.queue = <<>>]

\* The request returns without having issued a token.
Return(outcome) == [wf EXCEPT !.pc = "returned", !.outcome = outcome]

AfterStatements(w) ==
    [w EXCEPT !.pc = IF w.parent # NoName THEN "linkParent" ELSE "connections"]

\* Lines 419-430: the arguments are read; a missing subject returns at once.
StartRequest ==
    \E subject \in Subjects \cup {NoName}, parent \in Subjects \cup {NoName},
       force_it \in BOOLEAN :
        /\ wf.pc \in {"idle", "returned"}
        /\ wf.n < MaxWorkflows
        /\ wf' = [IdleWf EXCEPT
                    !.n = wf.n + 1,
                    !.subject = subject, !.parent = parent, !.force = force_it,
                    !.pc = IF subject = NoName THEN "returned"
                           ELSE IF parent # NoName THEN "parentCheck"
                           ELSE "issue",
                    !.outcome = IF subject = NoName THEN "missing" ELSE "none"]
        /\ UNCHANGED <<db, FlowVars>>

\* The parent lookup with its result ignored.
ParentCheck_NoVerify ==
    \E outcome \in GateOutcomes :
        LET r == Transaction(db, parentCheckQuery(wf.parent), TRUE, FALSE, outcome)
        IN  /\ wf.pc = "parentCheck"
            /\ wf' = IF r.cause # "none" THEN Return("error")
                     ELSE [wf EXCEPT !.pc = "issue"]
            /\ UNCHANGED <<db, FlowVars>>

\* Lines 434-451: the parent is looked up with a read.
ParentCheck ==
    \E outcome \in GateOutcomes :
        LET r == Transaction(db, parentCheckQuery(wf.parent), TRUE, FALSE, outcome)
        IN  /\ wf.pc = "parentCheck"
            /\ wf' = IF r.cause # "none" THEN Return("error")
                     ELSE IF r.rows = 0 THEN Return("noParent")
                     ELSE [wf EXCEPT !.pc = "issue"]
            /\ UNCHANGED <<db, FlowVars>>

\* Lines 454-456: the token is issued.
IssueToken ==
    \E outcome \in GateOutcomes :
        LET name == generateSecurityNodeName(wf.n)
            r == Transaction(db, createSecurityNodeQuery(name), TRUE, TRUE, outcome)
        IN  /\ wf.pc = "issue"
            /\ WithinBounds(r.db)
            /\ db' = r.db
            /\ wf' = IF r.cause # "none" THEN Return("error")
                     ELSE [wf EXCEPT !.pc = "check", !.token = name]
            /\ UNCHANGED FlowVars

\* The existence check with its result ignored: creation always proceeds.
CheckExists_NoRefusal ==
    \E outcome \in GateOutcomes, answer \in {"llmFails", "represented", "notRepresented"} :
        LET r == Transaction(db, existingOntologiesQuery, FALSE, FALSE, outcome)
        IN  /\ wf.pc = "check"
            /\ wf' = IF r.cause # "none" \/ answer = "llmFails" THEN ToRevoke("error")
                     ELSE [wf EXCEPT !.pc = "genStructure", !.exists = answer]
            /\ UNCHANGED <<db, FlowVars>>

\* Lines 458-471: checkBaseOntologyExists reads the ontologies and asks the
\* collaborator whether the subject is represented; exists keeps its answer.
CheckExists ==
    \E outcome \in GateOutcomes, answer \in {"llmFails", "represented", "notRepresented"} :
        LET r == Transaction(db, existingOntologiesQuery, FALSE, FALSE, outcome)
        IN  /\ wf.pc = "check"
            /\ wf' = IF r.cause # "none" \/ answer = "llmFails" THEN ToRevoke("error")
                     ELSE IF answer = "represented" /\ ~wf.force
                     THEN [ToRevoke("refused") EXCEPT !.exists = answer]
                     ELSE [wf EXCEPT !.pc = "genStructure", !.exists = answer]
            /\ UNCHANGED <<db, FlowVars>>

\* createBaseOntology, line 170: the structure is generated.
GenerateStructure ==
    \E answer \in {"llmFails", "answers"} :
        /\ wf.pc = "genStructure"
        /\ wf' = IF answer = "llmFails" THEN ToRevoke("error")
                 ELSE [wf EXCEPT !.pc = "genCypher"]
        /\ UNCHANGED <<db, FlowVars>>

\* createBaseOntology, lines 204-241: the statements are generated.
GenerateCypher ==
    \E answer \in {"llmFails", "answers"}, queries \in GeneratedInputs :
        /\ wf.pc = "genCypher"
        /\ wf' = IF answer = "llmFails" THEN ToRevoke("error")
                 ELSE IF queries = <<>> THEN AfterStatements(wf)
                 ELSE [wf EXCEPT !.pc = "exec", !.queue = queries]
        /\ UNCHANGED <<db, FlowVars>>

\* The statement loop with each statement in a try/catch of its own: a
\* failing statement is passed over and the loop goes on.
ExecuteStatement_Continue ==
    \E outcome \in GateOutcomes :
        LET q == GeneratedQuery(Head(wf.queue), wf.subject, wf.token)
            r == Transaction(db, q, TRUE, TRUE, outcome)
            w == [wf EXCEPT !.queue = Tail(wf.queue),
                            !.executed = IF r.cause # "none" THEN wf.executed
                                         ELSE wf.executed + 1,
                            !.failed = IF r.cause # "none" THEN wf.executed + 1
                                       ELSE wf.failed]
        IN  /\ wf.pc = "exec"
            /\ WithinBounds(r.db)
            /\ db' = r.db
            /\ wf' = IF w.queue = <<>> THEN AfterStatements(w) ELSE w
            /\ UNCHANGED FlowVars

\* createBaseOntology, lines 242-259: the next generated statement is run, as
\* it is, as a write; failed keeps the position of the statement that threw.
ExecuteStatement ==
    \E outcome \in GateOutcomes :
        LET q == GeneratedQuery(Head(wf.queue), wf.subject, wf.token)
            r == Transaction(db, q, TRUE, TRUE, outcome)
            w == [wf EXCEPT !.queue = Tail(wf.queue), !.executed = wf.executed + 1]
        IN  /\ wf.pc = "exec"
            /\ WithinBounds(r.db)
            /\ db' = r.db
            /\ wf' = IF r.cause # "none"
                     THEN [ToRevoke("error") EXCEPT !.failed = wf.executed + 1]
                     ELSE IF w.queue = <<>> THEN AfterStatements(w)
                     ELSE w
            /\ UNCHANGED FlowVars

\* createBaseOntology, lines 262-286: the parent link.
LinkParent ==
    \E outcome \in GateOutcomes :
        LET r == Transaction(db, relationshipQuery(wf.subject, wf.parent, wf.token),
                             TRUE, TRUE, outcome)
        IN  /\ wf.pc = "linkParent"
            /\ db' = r.db
            /\ wf' = IF r.cause # "none" THEN ToRevoke("error")
                     ELSE [wf EXCEPT !.pc = "connections"]
            /\ UNCHANGED FlowVars

\* What went wrong inside createOntologyConnections, if anything.
RelatedFailure(answer, outcome) ==
    IF outcome = "fails" THEN "store" ELSE IF answer = "llmFails" THEN "llm" ELSE "none"

\* createOntologyConnections with no try/catch: a failure inside fails the request.
LinkRelated_Propagates ==
    \E outcome \in GateOutcomes, answer \in {"llmFails", "answers"},
       other \in Subjects, confidence \in Confidences, kind \in {"gated", "ungated"} :
        LET others == {o \in Subjects : o # wf.subject /\ db.ontologies[o] > 0}
            runs == /\ others # {}
                    /\ other \in others
                    /\ answer = "answers"
                    /\ confidence > Threshold
            r == Transaction(db, connectionsQuery(kind, wf.subject, other, wf.token),
                             TRUE, TRUE, outcome)
            failure == RelatedFailure(answer, outcome)
        IN  /\ wf.pc = "connections"
            /\ db' = IF runs THEN r.db ELSE db
            /\ wf' = [ToRevoke(IF failure = "none" THEN "created" ELSE "error") EXCEPT
                        !.related = [failure |-> failure, confidence |-> confidence]]
            /\ UNCHANGED FlowVars

\* createOntologyConnections: the other ontologies are read, the collaborator
\* proposes a connection with a confidence and writes the statement; every
\* failure inside is swallowed. related keeps what happened inside.
LinkRelated ==
    \E outcome \in GateOutcomes, answer \in {"llmFails", "answers"},
       other \in Subjects, confidence \in Confidences, kind \in {"gated", "ungated"} :
        LET others == {o \in Subjects : o # wf.subject /\ db.ontologies[o] > 0}
            runs == /\ others # {}
                    /\ other \in others
                    /\ answer = "answers"
                    /\ confidence > Threshold
            r == Transaction(db, connectionsQuery(kind, wf.subject, other, wf.token),
                             TRUE, TRUE, outcome)
        IN  /\ wf.pc = "connections"
            /\ db' = IF runs THEN r.db ELSE db
            /\ wf' = [ToRevoke("created") EXCEPT
                        !.related = [failure |-> RelatedFailure(answer, outcome),
                                     confidence |-> confidence]]
            /\ UNCHANGED FlowVars

\* Lines 483-486: finally removes the token; when that statement fails the
\* error replaces the result (lines 487-496).
RevokeToken ==
    \E outcome \in GateOutcomes :
        LET r == Transaction(db, removeSecurityNodeQuery(wf.token), TRUE, TRUE, outcome)
        IN  /\ wf.pc = "revoke"
            /\ db' = r.db
            /\ wf' = [wf EXCEPT !.pc = "returned",
                                !.revoke = IF r.cause = "none" THEN "done" ELSE "failed",
                                !.outcome = IF r.cause = "none" THEN wf.pending ELSE "error"]
            /\ UNCHANGED FlowVars

\* A caller of safe_cypher_query at work while requests are in progress: it
\* lists the token nodes and tries a write on them, with no token name or
\* with a name it has read.
ExternalCaller ==
    \E query \in {ReadTokens, DeleteTokens}, securityNodeName \in {NoName} \cup known :
        HandleSafeCypherQuery(query, securityNodeName, "other", "answers")

FlowInit ==
    /\ nodes = {}
    /\ rels = {}
    /\ openSessions = 0
    /\ last = [op |-> "none", args |-> <<>>, status |-> Ok, res |-> <<>>]
    /\ altNodes = {}
    /\ altRels = {}
    /\ order = [phase |-> "setup", E1 |-> <<>>, E2 |-> <<>>, before |-> {}]
    /\ db = EmptyDb
    /\ env = [unsafe |-> FALSE, allowInsist |-> FALSE]
    /\ known = {}
    /\ lastQ = NoCall
    /\ wf = IdleWf
    /\ cls = NoText
    /\ calls = NoCalls
    /\ reply = NoReply

FlowNext ==
    \/ StartRequest
    \/ ParentCheck
    \/ IssueToken
    \/ CheckExists
    \/ GenerateStructure
    \/ GenerateCypher
    \/ ExecuteStatement
    \/ LinkParent
    \/ LinkRelated
    \/ RevokeToken
    \/ ExternalCaller

SpecFlow == FlowInit /\ [][FlowNext]_vars

WriteClassified == {q.id : q \in {x \in Queries : containsWriteOperations(x)}}

\* C5: safe_cypher_query called with a write-classified query, no token name,
\* unsafe mode off and the user-insists override not in effect returns the
\* structured refusal and sends no statement: the store is as it was.
C5_StructuredRefusal ==
    ( /\ lastQ.op = "safe"
      /\ lastQ.query \in WriteClassified
      /\ lastQ.name = NoName
      /\ ~env.unsafe
      /\ ~(env.allowInsist /\ lastQ.params = "force") )
    => (lastQ.kind = "refusal" /\ ~lastQ.executed /\ ~lastQ.changed)

C8_TokenNotObservable ==
    (wf.pc \notin {"idle", "returned"} /\ wf.token # NoName) =>
        /\ wf.token \notin known
        /\ (lastQ.op = "safe" /\ lastQ.name = wf.token) => ~lastQ.changed

\* The maximal runs of word characters of a text, as pairs of positions.
WordRuns(text) ==
    {<<i, j>> \in (DOMAIN text) \X (DOMAIN text) :
        /\ i <= j
        /\ \A k \in i..j : IsWordChar(text[k])
        /\ ~IsWordAt(text, i - 1)
        /\ ~IsWordAt(text, j + 1)}

\* C19: a text is classified as a write if and only if one of its words (a
\* maximal run of word characters, wherever it stands, also between quotes)
\* is CREATE, SET, DELETE, REMOVE or MERGE in some letter case; an operator
\* that is only part of a longer word does not count.
C19_StandaloneKeyword ==
    cls.done =>
        (cls.isWrite <=>
            \E run \in WordRuns(cls.text) :
                ToUpperText(SubSeq(cls.text, run[1], run[2])) \in writeOperatorTexts)

\* The text CREATEfoo was classified, as a read.
C19_Witness ==
    /\ cls.done
    /\ cls.text = <<"C", "R", "E", "A", "T", "E", "f", "o", "o">>
    /\ ~cls.isWrite

\* The entity's name, its type or one of its observations contains the
\* query or is contained in it, ignoring letter case.
ContainsEitherWay(field, query) ==
    \/ includes(toLowerCase(query), toLowerCase(Characters(field)))
    \/ includes(toLowerCase(Characters(field)), toLowerCase(query))

\* C20: searchNodes(query) returns an entity of the graph if and only if,
\* ignoring letter case, the query contains or is contained in the entity's
\* name, its entityType, or one of its observations.
C20_SearchEitherWay ==
    (last.op = "searchNodes" /\ last.status = Ok) =>
        \A i \in DOMAIN Loaded.entities :
            LET e == Loaded.entities[i]
            IN (\E j \in DOMAIN last.res[1].entities : last.res[1].entities[j] = e)
                   <=> \/ ContainsEitherWay(e.name, last.args)
                       \/ ContainsEitherWay(e.entityType, last.args)
                       \/ \E k \in DOMAIN e.observations :
                              ContainsEitherWay(e.observations[k], last.args)

\* C21: openNodes(names) returns exactly the entities whose name is in names,
\* and exactly the relations of the graph that join two returned entities.
C21_OpenNodesProjection ==
    (last.op = "openNodes" /\ last.status = Ok) =>
        LET returned == last.res[1]
            returnedNames == NamesOf(returned.entities)
        IN /\ Range(returned.entities)
                  = {e \in Range(Loaded.entities) : e.name \in Range(last.args)}
           /\ Triples(returned.relations)
                  = {t \in StoreTriples(nodes, rels) :
                        t[1] \in returnedNames /\ t[2] \in returnedNames}

\* The handler passed the query of the last call on to executeCypherQuery.
Admitted == lastQ.kind # "refusal" /\ lastQ.cause # "TypeError"

\* C22: a write-classified query with no token name is admitted by
\* safe_cypher_query if and only if unsafe mode is on, or the user-insists
\* flag of the process is on and the call carries force; force alone, with the
\* process flag off, admits nothing.
C22_EscapeHatches ==
    (lastQ.op = "safe" /\ lastQ.query \in WriteClassified /\ lastQ.name = NoName) =>
        (Admitted <=> (env.unsafe \/ (env.allowInsist /\ lastQ.params = "force")))

\* C23: a query classified as read is run and its rows are returned whatever
\* the token name, the two flags of the process and the params of the call
\* (absent or not) are. (Calls the store did not answer are left aside.)
C23_ReadNeedsNoPermission ==
    (lastQ.op = "safe" /\ lastQ.query \notin WriteClassified /\ lastQ.cause # "store") =>
        /\ lastQ.kind = "result"
        /\ lastQ.executed
        /\ ~lastQ.changed
        /\ lastQ.query = "ReadTests" => lastQ.rows = db.tests

\* C24: revoke(name) while no token of that name exists raises no error and
\* leaves the store as it was, and after revoke(name) no token of that name
\* exists, however many times the name was issued. (Calls the store did not
\* answer are left aside.)
C24_RevokeIdempotent ==
    (lastQ.op = "revoke" /\ lastQ.cause # "store") =>
        /\ lastQ.kind = "result"
        /\ db.tokens[lastQ.name] = 0
        /\ lastQ.held = 0 => ~lastQ.changed
        /\ lastQ.held > 0 => lastQ.changed

\* A revoke of a name that no token carries has answered, in a store that
\* holds other nodes.
C24_Witness ==
    /\ lastQ.op = "revoke"
    /\ lastQ.cause = "none"
    /\ lastQ.held = 0
    /\ db.tests > 0

\* C25: the existence check comes before the token is issued: a request is at
\* its existence check with no token issued, and a request that was refused
\* because the subject is represented has issued no token.
C25_CheckBeforeIssue ==
    /\ wf.pc = "check" => wf.token = NoName
    /\ (wf.pc = "returned" /\ wf.outcome = "refused") => wf.token = NoName

\* C27: a statement run in EXECUTE_STATEMENTS or as the connecting statement
\* of LINK_RELATED while the request's token is not in the store changes
\* nothing, whatever text the collaborator returned.
C27_StatementsGated ==
    [][(wf.pc \in {"exec", "connections"} /\ wf' # wf /\ db.tokens[wf.token] = 0)
          => db' = db]_vars

\* C28: a request is at LINK_PARENT only with a parent that was supplied and
\* is in the store; a request whose parent does not exist returns success=false,
\* has issued no token and executed no statement, and ontologies and links
\* of the store are as they were.
C28_ParentVerified ==
    [][ /\ wf'.pc = "linkParent" =>
              (wf'.parent # NoName /\ db'.ontologies[wf'.parent] > 0)
        /\ wf'.outcome = "noParent" =>
              /\ wf'.pc = "returned"
              /\ wf'.token = NoName
              /\ wf'.executed = 0
              /\ db'.ontologies = db.ontologies
              /\ db'.links = db.links
        /\ db'.links # db.links => (wf.pc \in {"linkParent", "connections"} /\ wf' # wf) ]_vars

\* A request with a parent has just linked its ontology to the parent.
C28_Witness ==
    /\ wf.pc = "connections"
    /\ wf.parent # NoName
    /\ wf.parent # wf.subject
    /\ <<wf.parent, wf.subject>> \in db.links

C26_RefusedWritesNothing ==
    [][ /\ (wf'.exists = "represented" /\ ~wf'.force) =>
              /\ wf'.pc \in {"revoke", "returned"}
              /\ wf'.executed = 0
              /\ wf'.pc = "returned" => wf'.outcome \in {"refused", "error"}
              /\ db'.ontologies = db.ontologies
              /\ db'.links = db.links
        /\ (wf.pc = "check" /\ wf'.exists = "represented" /\ wf'.force) =>
              wf'.pc = "genStructure" ]_vars

\* A request for a subject the store has an ontology of was refused.
C26_Witness ==
    /\ wf.pc = "returned"
    /\ wf.exists = "represented"
    /\ ~wf.force
    /\ wf.outcome = "refused"
    /\ db.ontologies[wf.subject] = 1

(***************************************************************************)
(***************************************************************************)
(* Adapter calls side by side.  A load→save operation awaits loadGraph,    *)
(* changes the graph it got in memory, and awaits saveGraph; between the   *)
(* two awaits another caller's call can run.  The timestamps follow the    *)
(* node whose entityID is the name they are kept under.                    *)
(***************************************************************************)
CallInputs(op) ==
    CASE op = "createEntities" ->
            {<<[name |-> n, entityType |-> "person", observations |-> UndefinedArray]>> :
                n \in Names}
      [] op = "createRelations" ->
            {<<[from |-> "A", to |-> "B", relationType |-> t]>> : t \in RelTypes}
      [] op = "addObservations" ->
            {<<[entityName |-> n, contents |-> <<o>>]>> : n \in Names, o \in ObsValues}
      [] op = "deleteObservations" ->
            {<<[entityName |-> n, observations |-> <<"o1">>]>> : n \in Names}
      [] op = "deleteRelations" ->
            {<<[from |-> "A", to |-> "B", relationType |-> t]>> : t \in RelTypes}
      [] OTHER -> {}

\* The names a call's arguments mention.
NamedBy(op, args) ==
    CASE op = "createEntities" -> {args[i].name : i \in DOMAIN args}
      [] op \in {"addObservations", "deleteObservations"} ->
            {args[i].entityName : i \in DOMAIN args}
      [] op \in {"createRelations", "deleteRelations"} ->
            {args[i].from : i \in DOMAIN args} \cup {args[i].to : i \in DOMAIN args}
      [] op = "deleteEntities" -> Range(args)
      [] OTHER -> {}

\* What a call does in memory to the graph it has loaded, and what it returns.
ModifyGraph(op, args, graph) ==
    CASE op = "createEntities" ->
            LET processedEntities ==
                    [i \in DOMAIN args |->
                        [entityID |-> Undefined, name |-> args[i].name,
                         entityType |-> args[i].entityType,
                         observations |-> IF args[i].observations = UndefinedArray
                                          THEN <<>> ELSE args[i].observations]]
                keep == {i \in DOMAIN processedEntities :
                            ~ \E j \in DOMAIN graph.entities :
                                  graph.entities[j].name = processedEntities[i].name}
                newEntities == FilterIdx(processedEntities, keep, 1)
            IN [graph |-> [entities |-> graph.entities \o newEntities,
                           relations |-> graph.relations],
                res |-> newEntities, threw |-> FALSE]
      [] op = "createRelations" ->
            LET keep == {i \in DOMAIN args :
                            ~ \E j \in DOMAIN graph.relations :
                                  /\ graph.relations[j].from = args[i].from
                                  /\ graph.relations[j].to = args[i].to
                                  /\ graph.relations[j].relationType = args[i].relationType}
                newRelations == FilterIdx(args, keep, 1)
            IN [graph |-> [entities |-> graph.entities,
                           relations |-> graph.relations \o newRelations],
                res |-> newRelations, threw |-> FALSE]
      [] op = "addObservations" ->
            LET loop == AddObservationsLoop(graph.entities, args, <<>>)
            IN [graph |-> [entities |-> loop.entities, relations |-> graph.relations],
                res |-> IF loop.found THEN loop.results ELSE <<>>, threw |-> ~loop.found]
      [] op = "deleteObservations" ->
            [graph |-> [entities |-> DeleteObservationsLoop(graph.entities, args),
                        relations |-> graph.relations],
             res |-> <<>>, threw |-> FALSE]
      [] op = "deleteRelations" ->
            LET keep == {i \in DOMAIN graph.relations :
                            ~ \E j \in DOMAIN args :
                                  /\ graph.relations[i].from = args[j].from
                                  /\ graph.relations[i].to = args[j].to
                                  /\ graph.relations[i].relationType = args[j].relationType}
            IN [graph |-> [entities |-> graph.entities,
                           relations |-> FilterIdx(graph.relations, keep, 1)],
                res |-> <<>>, threw |-> FALSE]
      [] OTHER -> [graph |-> graph, res |-> <<>>, threw |-> TRUE]

\* JSON.parse(JSON.stringify(value)) of a timestamp: the DateTime the driver
\* returned comes back as a plain object of its fields.
DeepCopyStamp(t) ==
    IF t.form = "DateTime" THEN [at |-> t.at, form |-> "Object"] ELSE t

\* The timestamps after the MERGE of one entity.  ON CREATE SET: += entity,
\* then createdAt and updatedAt are set to now.  ON MATCH SET: += entity, which
\* writes the createdAt and updatedAt the entity carries from its load, then
\* updatedAt is set to now.
MergeStamps(stamps, e, carried, now) ==
    IF stamps[e.name].createdAt.form = "none"
    THEN [stamps EXCEPT ![e.name] = [createdAt |-> now, updatedAt |-> now]]
    ELSE [stamps EXCEPT ![e.name] =
            [createdAt |-> IF carried.createdAt.form = "none" THEN @.createdAt
                           ELSE DeepCopyStamp(carried.createdAt),
             updatedAt |-> now]]

RECURSIVE SaveStamps(_, _, _, _)
\* UNWIND $memoryGraph.entities as entity: the entities in turn.  loaded holds
\* the timestamps each loaded entity carries; an entity the call has appended
\* carries none.
SaveStamps(stamps, entities, loaded, now) ==
    IF entities = <<>> THEN stamps
    ELSE SaveStamps(MergeStamps(stamps, Head(entities), loaded[Head(entities).name], now),
                    Tail(entities), loaded, now)

\* The call is made and its loadGraph has answered.
BeginCall ==
    \E p \in Callers, op \in {"createEntities", "createRelations", "addObservations",
                               "deleteObservations", "deleteRelations"} :
        \E args \in CallInputs(op) :
            /\ calls.proc[p].pc # "loaded"
            /\ calls' = [calls EXCEPT
                            !.proc[p] = [pc |-> "loaded", op |-> op, args |-> args,
                                         graph |-> LoadGraph(nodes, rels),
                                         stamps |-> calls.stamps,
                                         res |-> <<>>, threw |-> FALSE, saved |-> 0],
                            !.gone = IF op = "createEntities"
                                     THEN @ \ NamedBy(op, args) ELSE @]
            /\ UNCHANGED <<graphVars, orderVars, gateVars, textVars, replyVars>>

\* The rest of the call: the change in memory, saveGraph, the return.
EndCall ==
    \E p \in Callers :
        LET c == calls.proc[p]
            m == ModifyGraph(c.op, c.args, c.graph)
            saved == SaveGraph(nodes, rels, m.graph)
            now == [at |-> calls.clock + 1, form |-> "DateTime"]
        IN  /\ c.pc = "loaded"
            /\ IF m.threw
               THEN /\ calls' = [calls EXCEPT !.proc[p].pc = "returned",
                                              !.proc[p].threw = TRUE]
                    /\ UNCHANGED <<nodes, rels, openSessions>>
               ELSE /\ openSessions + SaveGraphSessions <= MaxSessions
                    /\ nodes' = saved.nodes
                    /\ rels' = saved.rels
                    /\ openSessions' = openSessions + SaveGraphSessions
                    /\ calls' = [calls EXCEPT
                                    !.clock = @ + 1,
                                    !.stamps = SaveStamps(@, m.graph.entities, c.stamps, now),
                                    !.proc[p].pc = "returned",
                                    !.proc[p].res = m.res,
                                    !.proc[p].saved = calls.clock + 1]
            /\ UNCHANGED <<last, orderVars, gateVars, textVars, replyVars>>

\* deleteEntities: one write transaction.  calls.gone keeps the names deleted
\* since the last createEntities call that names them was made; a name that a
\* createEntities call in progress carries is not put there.
DeleteEntitiesCall ==
    \E p \in Callers, n \in Names :
        LET entityNames == <<n>>
            after == DetachDelete(nodes, rels, entityNames)
            creating == {q \in Callers : /\ calls.proc[q].pc = "loaded"
                                         /\ calls.proc[q].op = "createEntities"}
            creatingNow == UNION {NamedBy("createEntities", calls.proc[q].args) : q \in creating}
        IN  /\ calls.proc[p].pc # "loaded"
            /\ nodes' = after.nodes
            /\ rels' = after.rels
            /\ calls' = [calls EXCEPT
                            !.stamps = [x \in Names |-> IF x \in Range(entityNames)
                                                        THEN NoStamps[x] ELSE @[x]],
                            !.proc[p] = [IdleCall EXCEPT !.pc = "returned",
                                                         !.op = "deleteEntities",
                                                         !.args = entityNames],
                            !.gone = (@ \cup Range(entityNames)) \ creatingNow]
            /\ UNCHANGED <<openSessions, last, orderVars, gateVars, textVars, replyVars>>

CallsNext ==
    \/ BeginCall
    \/ EndCall
    \/ DeleteEntitiesCall

SpecCalls == Init /\ [][CallsNext]_vars

\* C32: when two createEntities calls for the same name have both loaded a
\* graph without it and both have returned, each returns the entity as
\* added and the store holds exactly one entity of that name.
C32_BothAddedOneStored ==
    \A n \in Names :
        (/\ \A p \in Callers :
                /\ calls.proc[p].pc = "returned"
                /\ calls.proc[p].op = "createEntities"
                /\ n \in NamedBy("createEntities", calls.proc[p].args)
                /\ \A i \in DOMAIN calls.proc[p].graph.entities :
                       calls.proc[p].graph.entities[i].name # n)
            => /\ \A p \in Callers :
                    \E i \in DOMAIN calls.proc[p].res : calls.proc[p].res[i].name = n
               /\ Cardinality({m \in nodes : m.name = n}) = 1

\* Both calls loaded before either saved: the second save has matched the
\* node the first one created, and both calls report the entity as added.
C32_Witness ==
    /\ \A p \in Callers :
            /\ calls.proc[p].pc = "returned"
            /\ calls.proc[p].op = "createEntities"
            /\ \E i \in DOMAIN calls.proc[p].res : calls.proc[p].res[i].name = "A"
            /\ calls.proc[p].graph.entities = <<>>
    /\ calls.stamps["A"].createdAt.at = 1
    /\ calls.stamps["A"].updatedAt.at = 2
    /\ Cardinality({m \in nodes : m.name = "A"}) = 1

(***************************************************************************)
(***************************************************************************)
(* The texts of the collaborator and what the generation steps make of     *)
(* them.  A text is a sequence of pieces: the opening of a json fence, the *)
(* closing of a fence, a JSON object of the asked structure, a brace that   *)
(* opens no valid JSON, white space, prose.                                 *)
(***************************************************************************)
FenceOpen == "fence json"
FenceClose == "fence"
JsonObject == "{...}"
OpenBrace == "{"
WhiteSpace == " "
Prose == "prose"
Pieces == {FenceOpen, FenceClose, JsonObject, OpenBrace, WhiteSpace, Prose}

RECURSIVE TrimStart(_)
TrimStart(t) ==
    IF t # <<>> /\ Head(t) = WhiteSpace THEN TrimStart(Tail(t)) ELSE t

RECURSIVE TrimEnd(_)
TrimEnd(t) ==
    IF t # <<>> /\ t[Len(t)] = WhiteSpace THEN TrimEnd(SubSeq(t, 1, Len(t) - 1)) ELSE t

\* String.prototype.trim
Trim(t) == TrimEnd(TrimStart(t))

\* JSON.parse succeeds on one JSON value with white space around it.
JsonParses(t) == Trim(t) = <<JsonObject>>

\* llm.js extractLLMResponse: json is set when the trimmed content starts with
\* a brace and parses.
extractLLMResponse(content) ==
    LET startsWithBrace == Trim(content) # <<>> /\ Head(Trim(content)) \in {JsonObject, OpenBrace}
    IN [text |-> content, json |-> startsWithBrace /\ JsonParses(content)]

\* markdownString.match(/```json\s*([\s\S]*?)\s*```/i): the pieces between the
\* first opening of a json fence and the next three backticks, without the
\* white space around them; none when there is no such pair.
extractJsonFromMarkdown(markdownString) ==
    LET opens == {i \in DOMAIN markdownString : markdownString[i] = FenceOpen}
        first == CHOOSE i \in opens : \A k \in opens : i <= k
        closes == IF opens = {} THEN {}
                  ELSE {j \in DOMAIN markdownString :
                           j > first /\ markdownString[j] \in {FenceClose, FenceOpen}}
        next == CHOOSE j \in closes : \A k \in closes : j <= k
    IN IF markdownString = <<>> \/ opens = {} \/ closes = {}
       THEN [match |-> FALSE, json |-> <<>>]
       ELSE [match |-> TRUE, json |-> Trim(SubSeq(markdownString, first + 1, next - 1))]

\* What a generation step goes on with: what the text says ("reply") or what
\* the step takes in its place ("default": not represented, the default
\* ontology, no statements, no connections).
StepUses(step, content) ==
    LET response == extractLLMResponse(content)
        extractedJson == extractJsonFromMarkdown(response.text)
        parsedCypherResponse ==
            \/ response.json
            \/ /\ response.text # <<>>
               /\ extractedJson.match
               /\ extractedJson.json # <<>>
               /\ JsonParses(extractedJson.json)
    IN CASE step = "cypher" -> IF parsedCypherResponse THEN "reply" ELSE "default"
         [] OTHER -> IF response.json THEN "reply" ELSE "default"

\* One generation step receives a text.
ReceiveReply ==
    \E step \in {"checkExists", "structure", "cypher", "connections"},
       content \in SeqsUpTo(Pieces, MaxPieces) :
        /\ reply' = [step |-> step, content |-> content, uses |-> StepUses(step, content)]
        /\ UNCHANGED <<graphVars, orderVars, gateVars, textVars, callVars>>

SpecReply == Init /\ [][ReceiveReply]_vars

\* The text is one JSON object, with nothing but white space around it.
InlineJson(content) ==
    /\ \E i \in DOMAIN content : content[i] = JsonObject
    /\ \A i, j \in DOMAIN content : content[i] = JsonObject /\ content[j] = JsonObject => i = j
    /\ \A i \in DOMAIN content : content[i] \in {JsonObject, WhiteSpace}

\* The text holds a json fence around one JSON object: its first opening of a
\* json fence is followed by the object and then by three backticks.
FencedJson(content) ==
    \E i, j \in DOMAIN content :
        /\ i < j
        /\ content[i] = FenceOpen
        /\ content[j] \in {FenceClose, FenceOpen}
        /\ \A k \in 1..(i - 1) : content[k] # FenceOpen
        /\ \E k \in (i + 1)..(j - 1) :
              /\ content[k] = JsonObject
              /\ \A l \in ((i + 1)..(j - 1)) \ {k} : content[l] = WhiteSpace

\* C34: in every generation step a text that is inline JSON or fenced JSON is
\* parsed and used, and any other text makes the step go on with its default.
C34_EveryShapeTolerated ==
    reply.step # "none"
        => /\ (InlineJson(reply.content) \/ FencedJson(reply.content)) => reply.uses = "reply"
           /\ ~(InlineJson(reply.content) \/ FencedJson(reply.content)) => reply.uses = "default"

\* C35: while an entity is stored its createdAt stays the value its insert
\* gave it, and its updatedAt never decreases.
C35_CreatedAtKept ==
    [][\A n \in Names :
          (calls.stamps[n].createdAt.form # "none" /\ calls'.stamps[n].createdAt.form # "none")
              => /\ calls'.stamps[n].createdAt = calls.stamps[n].createdAt
                 /\ calls'.stamps[n].updatedAt.at >= calls.stamps[n].updatedAt.at]_vars

\* C36: the save of addObservations, deleteObservations, createEntities,
\* createRelations or deleteRelations changes no field (name, entityType,
\* observations, createdAt, updatedAt) of an entity the call does not name.
C36_OthersUntouched ==
    [][\A p \in Callers :
          (calls.proc[p].pc = "loaded" /\ calls'.proc[p].pc = "returned")
              => \A n \in Names \ NamedBy(calls.proc[p].op, calls.proc[p].args) :
                    /\ {m \in nodes' : m.name = n} = {m \in nodes : m.name = n}
                    /\ calls'.stamps[n] = calls.stamps[n]]_vars

\* C37: an entity that deleteEntities has removed is not in the store as long
\* as no createEntities call that names it has been made since.
C37_DeletedStaysDeleted ==
    \A n \in calls.gone : ~ \E m \in nodes : m.name = n

\* C38: when two addObservations calls on the same entity have both returned,
\* theirs being the two latest saves, the entity's observations hold every
\* string either call reported as added.
C38_AddedObservationsKept ==
    \A n \in Names :
        (/\ \A p \in Callers :
                /\ calls.proc[p].pc = "returned"
                /\ calls.proc[p].op = "addObservations"
                /\ ~calls.proc[p].threw
                /\ n \in NamedBy("addObservations", calls.proc[p].args)
         /\ {calls.proc[p].saved : p \in Callers} = {calls.clock - 1, calls.clock})
            => \A p \in Callers : \A m \in {x \in nodes : x.name = n} :
                   \A i \in DOMAIN calls.proc[p].res :
                       Range(calls.proc[p].res[i].addedObservations) \subseteq Range(m.observations)

\* C39: a request that returns success=true has run at least one generated
\* statement against the store.
C39_SuccessMeansCreated ==
    (wf.pc = "returned" /\ wf.outcome = "created") => wf.executed > 0

\* C31: the gate does not look at a token's expiry.  A gated write that the
\* store answers acts once per token of the given name, whether or not those
\* tokens are older than their five minutes; it acts zero times only when no
\* token of that name is in the store (none issued, or revoked).
C31_ExpiryNotEnforced ==
    /\ (lastQ.op = "gated" /\ lastQ.query = "CreateTest" /\ lastQ.cause = "none")
            => db.tests = lastQ.before + lastQ.held
    /\ (lastQ.op = "safe" /\ lastQ.query = "CreateTest" /\ lastQ.cause = "none"
            /\ lastQ.name # NoName /\ ~env.unsafe)
            => db.tests = lastQ.before + lastQ.held

\* A gated write has created a node although every token of its name had expired.
C31_Witness ==
    /\ lastQ.op = "gated" /\ lastQ.query = "CreateTest" /\ lastQ.cause = "none"
    /\ lastQ.held > 0 /\ lastQ.aged = lastQ.held
    /\ db.tests = lastQ.before + lastQ.held
    /\ lastQ.changed

\* C33: a statement the safe_cypher_query tool sends runs in a write
\* transaction exactly when the classifier has labelled it a write; a
\* statement labelled a read runs in a read transaction as it was given,
\* without the token match, whatever token name came with it.
C33_UnitOfWorkFollowsLabel ==
    (lastQ.op = "safe" /\ lastQ.unit # "none")
        => /\ (lastQ.unit = "executeWrite") <=> (lastQ.query \in WriteClassified)
           /\ (lastQ.query \notin WriteClassified)
                  => (lastQ.unit = "executeRead" /\ ~lastQ.wrapped)

\* A read came with a token name the caller had seen and was answered from a
\* read transaction, unwrapped.
C33_Witness ==
    /\ lastQ.op = "safe" /\ lastQ.query = "ReadTests" /\ lastQ.name \in TokenNames
    /\ lastQ.unit = "executeRead" /\ ~lastQ.wrapped /\ lastQ.kind = "result"

====
